---------------------------- MODULE Spec2Model ----------------------------
(***************************************************************************)
(* A model of the kanban backend's core services:                          *)
(*   TasksService    (src/src/tasks/tasks.service.ts, lines 1-438)         *)
(*   ProjectsService (src/src/projects/projects.service.ts and the copy    *)
(*                    with the cascades in tasks.service.ts, lines 440-833)*)
(* The relational store is modelled as one set of rows per table.  Every   *)
(* public operation is one atomic action (the whole handler, including its *)
(* transaction and its rollback).  ORM criteria are read as what they are  *)
(* written to select: a scalar is equality, null is IS NULL, a list of ids *)
(* is membership.                                                          *)
(***************************************************************************)
EXTENDS Integers, Sequences, FiniteSets, TLC

VARIABLES
    users,          \* table users:            [id, isActive, deletedAt]
    refreshTokens,  \* table refresh_tokens:   [id, userId, isRevoked]
    userRoles,      \* table user_roles:       [userId, roleId]
    projects,       \* table projects:         [id, ownerId, status, name]
    members,        \* table project_members:  [projectId, userId, role, isActive]
    boards,         \* table kanban_boards:    [id, projectId, isActive]
    columns,        \* table kanban_columns:   [id, boardId, isActive]
    tasks,          \* table tasks:            [id, projectId, boardId, columnId,
                    \*                          createdById, assigneeId, order,
                    \*                          deletedAt, comments]
    notifications,  \* table notifications (the sink's rows), in insertion order
    nextProjectId,  \* auto-increment of projects.id
    nextTaskId,     \* auto-increment of tasks.id
    clock,          \* Date.now(), in milliseconds
    calls,          \* the calls in progress, statement by statement (see below)
    last            \* the last completed call: [op, res, failAt]

vars == <<users, refreshTokens, userRoles, projects, members, boards, columns, tasks, notifications,
          nextProjectId, nextTaskId, clock, calls, last>>

(***************************************************************************)
(* Bounds of the model.                                                    *)
(***************************************************************************)
MaxOrder == 3       \* largest order value a call may pass or produce
MaxIds == 3         \* longest taskIds list passed to reorderTasksInColumn
MaxNotifications == 2  \* rows the notification table may hold
MaxComments == 1    \* comments a task may hold
MaxTasks == 4       \* largest id the tasks table hands out

(***************************************************************************)
(* Values.                                                                 *)
(***************************************************************************)
Null == 0                       \* a null reference (ids start at 1)
Undefined == -1                 \* an omitted optional number (newOrder)
UserIds == {1, 2, 3}
ProjectIds == {1, 2}            \* ids the projects table hands out
ADMIN == "admin"
MEMBER == "member"
ProjectRoles == {ADMIN, MEMBER}
TaskActions == {"read", "update", "delete", "move", "comment"}

\* a completed call: the operation, its outcome ("ok" or the kind of the exception
\* it threw) and the write that was made to fail ("none" when no write failed)
Call(op, res, failAt) == [op |-> op, res |-> res, failAt |-> failAt]

Max(S) == CHOOSE m \in S : \A x \in S : x <= m

RECURSIVE SeqsOver(_, _)
\* every list of at most n elements of S
SeqsOver(S, n) ==
    IF n = 0 THEN {<<>>}
    ELSE LET shorter == SeqsOver(S, n - 1)
         IN  shorter \cup {Append(s, x) : s \in {q \in shorter : Len(q) = n - 1}, x \in S}

Range(s) == {s[i] : i \in 1..Len(s)}

(***************************************************************************)
(* Repository queries (findOne with a where clause).                       *)
(***************************************************************************)
FindRows(table, id) == {r \in table : r.id = id}

\* projectRepository.findOne({ where: { id, status: 'active' } })
activeProject(projectId) ==
    {p \in projects : p.id = projectId /\ p.status = "active"}

\* projectMemberRepository.findOne({ where: { projectId, userId, isActive: true } })
activeMember(projectId, userId) ==
    {m \in members : m.projectId = projectId /\ m.userId = userId /\ m.isActive}

\* kanbanColumnRepository.findOne({ where: { id: columnId, isActive: true } })
activeColumn(columnId) ==
    {c \in columns : c.id = columnId /\ c.isActive}


TaskRow(taskId) == CHOOSE t \in tasks : t.id = taskId

\* repository.save(entity) of a loaded row: the row with that id is replaced
SaveRow(table, row) == {r \in table : r.id # row.id} \cup {row}

(***************************************************************************)
(* Transactions (queryRunner.startTransaction ... commit / rollback).      *)
(* failAt names the write of the try block that throws, by the table it    *)
(* writes, or "commit"; order lists the tables in the order in which the   *)
(* block first writes them.                                                *)
(***************************************************************************)
\* the tables written before the write that throws (all, when the commit throws)
WrittenBefore(order, failAt) ==
    IF \E i \in 1..Len(order) : order[i] = failAt
    THEN {order[j] : j \in 1..((CHOOSE i \in 1..Len(order) : order[i] = failAt) - 1)}
    ELSE Range(order)

\* what the transaction has written when it reaches the catch block
partialWrites(before, w, order, failAt) ==
    [f \in DOMAIN before |-> IF f \in WrittenBefore(order, failAt) THEN w[f] ELSE before[f]]

\* a catch block that leaves the writes in place
rollbackTransactionSkipped(before, partial) == partial

\* catch: queryRunner.rollbackTransaction() gives back the tables of startTransaction
rollbackTransaction(before, partial) == before

(***************************************************************************)
(* TasksService: private helpers.                                          *)
(***************************************************************************)
\* Throws NotFound or Forbidden, or returns ("ok").
checkProjectAccess(projectId, userId) ==
    IF activeProject(projectId) = {} THEN "NotFound"
    ELSE IF \E p \in activeProject(projectId) : p.ownerId = userId THEN "ok"
    ELSE IF activeMember(projectId, userId) = {} THEN "Forbidden"
    ELSE "ok"

\* the evaluator when the creator rule also grants "move"
checkTaskPermissionCreatorMoves(task, userId, action) ==
    LET project == FindRows(projects, task.projectId)
        member == activeMember(task.projectId, userId)
    IN  IF \E p \in project : p.ownerId = userId THEN TRUE
        ELSE IF \E m \in member : m.role = ADMIN THEN TRUE
        ELSE IF task.createdById = userId /\ action \in {"update", "delete", "move"} THEN TRUE
        ELSE IF task.assigneeId = userId /\ action \in {"update", "comment"} THEN TRUE
        ELSE IF member # {} /\ action \in {"read", "comment"} THEN TRUE
        ELSE FALSE

checkTaskPermission(task, userId, action) ==
    LET project == FindRows(projects, task.projectId)
        member == activeMember(task.projectId, userId)
    IN  IF \E p \in project : p.ownerId = userId THEN TRUE
        ELSE IF \E m \in member : m.role = ADMIN THEN TRUE
        ELSE IF task.createdById = userId /\ action \in {"update", "delete"} THEN TRUE
        ELSE IF task.assigneeId = userId /\ action \in {"update", "comment"} THEN TRUE
        ELSE IF member # {} /\ action \in {"read", "comment"} THEN TRUE
        ELSE FALSE

\* the validation when the column only has to be active
validateColumnAccessAnyProject(columnId, projectId) ==
    IF activeColumn(columnId) = {} THEN "NotFound" ELSE "ok"

validateColumnAccess(columnId, projectId) ==
    IF activeColumn(columnId) = {} THEN "NotFound"
    ELSE IF \A c \in activeColumn(columnId) :
                {b \in boards : b.id = c.boardId /\ b.projectId = projectId /\ b.isActive} = {}
         THEN "NotFound"
    ELSE "ok"

validateTaskAccess(projectId, boardId, columnId, userId) ==
    LET access == checkProjectAccess(projectId, userId)
    IN  IF access # "ok" THEN access
    ELSE IF {b \in boards : b.id = boardId /\ b.projectId = projectId /\ b.isActive} = {}
         THEN "NotFound"
    ELSE validateColumnAccess(columnId, projectId)

\* getTaskById without its project access check
getTaskByIdNoAccessCheck(taskId, userId) ==
    IF FindRows(tasks, taskId) = {} THEN "NotFound" ELSE "ok"

\* The outcome of getTaskById: NotFound, Forbidden or ok (the row is returned).
getTaskById(taskId, userId) ==
    IF FindRows(tasks, taskId) = {} THEN "NotFound"
    ELSE checkProjectAccess(TaskRow(taskId).projectId, userId)

\* (maxOrder?.maxOrder || -1) + 1 over SELECT MAX(task.order) WHERE columnId
nextOrder(table, columnId) ==
    LET orders == {t.order : t \in {r \in table : r.columnId = columnId}}
    IN  IF orders = {} THEN -1 + 1
        ELSE (IF Max(orders) = 0 THEN -1 ELSE Max(orders)) + 1

\* find(Task, { where: { columnId }, order: { order: 'ASC' } }): the rows of the
\* column sorted by order; rows of equal order come in any sequence.
SortedByOrder(rows) ==
    {s \in [1..Cardinality(rows) -> rows] :
        /\ \A i, j \in 1..Cardinality(rows) : i # j => s[i] # s[j]
        /\ \A i, j \in 1..Cardinality(rows) : i < j => s[i].order <= s[j].order}

RECURSIVE HelperLoop(_, _, _, _, _, _)
\* the for loop of reorderTasksInColumnHelper from element i on, counter at order
HelperLoop(table, found, i, movedTaskId, newOrder, order) ==
    IF i > Len(found) THEN table
    ELSE IF found[i].id # movedTaskId
         THEN LET slot == IF order = newOrder THEN order + 1 ELSE order
              IN  HelperLoop(SaveRow(table, [found[i] EXCEPT !.order = slot]),
                             found, i + 1, movedTaskId, newOrder, slot + 1)
         ELSE HelperLoop(table, found, i + 1, movedTaskId, newOrder, order)

\* the helper without "if (order === newOrder) order++": no slot is kept free
reorderTasksInColumnHelperNoSkip(table, found, movedTaskId, newOrder) ==
    HelperLoop(table, found, 1, movedTaskId, Undefined, 0)

reorderTasksInColumnHelper(table, found, movedTaskId, newOrder) ==
    HelperLoop(table, found, 1, movedTaskId, newOrder, 0)

(***************************************************************************)
(* TasksService.moveTask                                                   *)
(***************************************************************************)
moveTaskOutcome(taskId, targetColumnId, userId) ==
    LET loaded == getTaskById(taskId, userId)
    IN  IF loaded # "ok" THEN loaded
    ELSE IF ~checkTaskPermission(TaskRow(taskId), userId, "move") THEN "Forbidden"
    ELSE validateColumnAccess(targetColumnId, TaskRow(taskId).projectId)

\* the order written to the moved task
movedOrder(taskId, targetColumnId, newOrder) ==
    IF newOrder # Undefined THEN newOrder ELSE nextOrder(tasks, targetColumnId)

MoveTask(taskId, targetColumnId, newOrder, userId) ==
    LET res == moveTaskOutcome(taskId, targetColumnId, userId)
    IN  /\ last' = Call("moveTask", res, "none")
        /\ IF res # "ok" THEN tasks' = tasks
           ELSE LET saved == [TaskRow(taskId) EXCEPT
                                 !.columnId = targetColumnId,
                                 !.order = movedOrder(taskId, targetColumnId, newOrder)]
                    afterSave == SaveRow(tasks, saved)
                IN  /\ saved.order <= MaxOrder
                    /\ IF newOrder # Undefined
                       THEN \E found \in SortedByOrder({t \in afterSave : t.columnId = targetColumnId}) :
                                tasks' = reorderTasksInColumnHelper(afterSave, found, taskId, newOrder)
                       ELSE tasks' = afterSave
        /\ UNCHANGED <<calls, users, refreshTokens, userRoles, projects, members, boards, columns, notifications,
                       nextProjectId, nextTaskId, clock>>

(***************************************************************************)
(* TasksService.reorderTasksInColumn                                       *)
(***************************************************************************)
\* column.boardId is what the code hands to checkProjectAccess as the project id
reorderTasksInColumnOutcome(columnId, userId) ==
    IF activeColumn(columnId) = {} THEN "NotFound"
    ELSE checkProjectAccess((CHOOSE c \in activeColumn(columnId) : TRUE).boardId, userId)

RECURSIVE ReorderLoopAnyColumn(_, _, _, _)
\* the loop when the update's criterion is the id alone
ReorderLoopAnyColumn(table, columnId, taskIds, i) ==
    IF i > Len(taskIds) THEN table
    ELSE ReorderLoopAnyColumn({IF t.id = taskIds[i]
                                  THEN [t EXCEPT !.order = i - 1] ELSE t : t \in table},
                              columnId, taskIds, i + 1)

RECURSIVE ReorderLoop(_, _, _, _)
\* update(Task, { id: taskIds[i], columnId }, { order: i }) for i = 0, 1, ...
ReorderLoop(table, columnId, taskIds, i) ==
    IF i > Len(taskIds) THEN table
    ELSE ReorderLoop({IF t.id = taskIds[i] /\ t.columnId = columnId
                         THEN [t EXCEPT !.order = i - 1] ELSE t : t \in table},
                     columnId, taskIds, i + 1)

ReorderTasksInColumn(columnId, taskIds, userId) ==
    LET res == reorderTasksInColumnOutcome(columnId, userId)
    IN  /\ last' = Call("reorderTasksInColumn", res, "none")
        /\ tasks' = IF res = "ok" THEN ReorderLoop(tasks, columnId, taskIds, 1) ELSE tasks
        /\ UNCHANGED <<calls, users, refreshTokens, userRoles, projects, members, boards, columns, notifications,
                       nextProjectId, nextTaskId, clock>>

(***************************************************************************)
(* TasksService.getColumnTasks (the listing of a column).                  *)
(***************************************************************************)
\* findOne of the active column, then checkProjectAccess(column.boardId, userId)
getColumnTasksOutcome(columnId, userId) ==
    IF activeColumn(columnId) = {} THEN "NotFound"
    ELSE checkProjectAccess((CHOOSE c \in activeColumn(columnId) : TRUE).boardId, userId)

\* find({ where: { columnId, projectId: column.boardId }, order: { order: 'ASC' } })
columnTasksFound(columnId) ==
    LET column == CHOOSE c \in activeColumn(columnId) : TRUE
    IN  SortedByOrder({t \in tasks : t.columnId = columnId /\ t.projectId = column.boardId})

GetColumnTasks(columnId, userId) ==
    LET res == getColumnTasksOutcome(columnId, userId)
    IN  /\ IF res = "ok"
           THEN \E found \in columnTasksFound(columnId) :
                    last' = [op |-> "getColumnTasks", res |-> res, failAt |-> "none",
                             returned |-> found]
           ELSE last' = [op |-> "getColumnTasks", res |-> res, failAt |-> "none",
                         returned |-> <<>>]
        /\ UNCHANGED <<calls, users, refreshTokens, userRoles, projects, members, boards,
                       columns, tasks, notifications, nextProjectId, nextTaskId, clock>>

(***************************************************************************)
(* moveTask and reorderTasksInColumn when a write of the transaction, or   *)
(* the commit, throws.                                                     *)
(***************************************************************************)
MoveFailAts == {"task", "helper", "commit"}

\* failAt: "task" (the save of the moved task), "helper" (the first save of
\* reorderTasksInColumnHelper) or "commit"
MoveTaskFails(taskId, targetColumnId, newOrder, userId, failAt) ==
    LET saved == [TaskRow(taskId) EXCEPT
                     !.columnId = targetColumnId,
                     !.order = movedOrder(taskId, targetColumnId, newOrder)]
        afterSave == SaveRow(tasks, saved)
    IN  /\ moveTaskOutcome(taskId, targetColumnId, userId) = "ok"
        /\ failAt = "helper" => newOrder # Undefined
        /\ saved.order <= MaxOrder
        /\ last' = Call("moveTask", "Error", failAt)
        /\ \E found \in SortedByOrder({t \in afterSave : t.columnId = targetColumnId}) :
              LET partial == IF failAt = "task" THEN tasks
                             ELSE IF failAt = "helper" \/ newOrder = Undefined THEN afterSave
                             ELSE reorderTasksInColumnHelper(afterSave, found, taskId, newOrder)
              IN  tasks' = rollbackTransaction(tasks, partial)
        /\ UNCHANGED <<calls, users, refreshTokens, userRoles, projects, members, boards, columns,
                       notifications, nextProjectId, nextTaskId, clock>>

\* the failing update of the loop, by its index i; past the last index the commit
ReorderFailAts == <<"update 0", "update 1", "update 2", "commit">>

ReorderTasksInColumnFails(columnId, taskIds, userId, i) ==
    LET partial == ReorderLoop(tasks, columnId, SubSeq(taskIds, 1, i - 1), 1)
    IN  /\ reorderTasksInColumnOutcome(columnId, userId) = "ok"
        /\ i \in 1..(Len(taskIds) + 1)
        /\ last' = Call("reorderTasksInColumn", "Error",
                        IF i > Len(taskIds) THEN "commit" ELSE ReorderFailAts[i])
        /\ tasks' = rollbackTransaction(tasks, partial)
        /\ UNCHANGED <<calls, users, refreshTokens, userRoles, projects, members, boards, columns,
                       notifications, nextProjectId, nextTaskId, clock>>

(***************************************************************************)
(* The notification sink (NotificationsService): one unread row per call.  *)
(***************************************************************************)
\* (the payload's task and actor are not kept: no operation of the core reads them)
Notification(kind, userId, projectId) ==
    [kind |-> kind, userId |-> userId, projectId |-> projectId, status |-> "unread"]

RECURSIVE Notify(_, _, _)
\* one row per recipient, in the order of the calls
Notify(table, kind, recipients) ==
    IF recipients = <<>> THEN table
    ELSE Notify(Append(table, Notification(kind, Head(recipients), Null)),
                kind, Tail(recipients))

(***************************************************************************)
(* TasksService.createTask.  dto: [projectId, boardId, columnId].          *)
(***************************************************************************)
createTaskOutcome(dto, userId) ==
    validateTaskAccess(dto.projectId, dto.boardId, dto.columnId, userId)

\* taskRepository.create({...dto, createdById, order: nextOrder, ...})
createdTask(dto, userId) ==
    [id |-> nextTaskId, projectId |-> dto.projectId, boardId |-> dto.boardId,
     columnId |-> dto.columnId, createdById |-> userId, assigneeId |-> Null,
     order |-> nextOrder(tasks, dto.columnId), deletedAt |-> FALSE, comments |-> <<>>]

CreateTask(dto, userId) ==
    LET res == createTaskOutcome(dto, userId)
    IN  /\ last' = Call("createTask", res, "none")
        /\ IF res = "ok"
           THEN /\ nextTaskId <= MaxTasks
                /\ tasks' = tasks \cup {createdTask(dto, userId)}
                /\ nextTaskId' = nextTaskId + 1
           ELSE UNCHANGED <<tasks, nextTaskId>>
        /\ UNCHANGED <<calls, users, refreshTokens, userRoles, projects, members, boards, columns, notifications,
                       nextProjectId, clock>>

(***************************************************************************)
(* TasksService: getTaskById as an operation, updateTask, deleteTask and   *)
(* addComment.                                                             *)
(***************************************************************************)
GetTask(taskId, userId) ==
    /\ last' = Call("getTask", getTaskById(taskId, userId), "none")
    /\ UNCHANGED <<calls, users, refreshTokens, userRoles, projects, members, boards, columns, tasks, notifications,
                   nextProjectId, nextTaskId, clock>>

\* dto: [columnId, assigneeId], Undefined for a field the request leaves out
updateTaskOutcome(taskId, dto, userId) ==
    LET loaded == getTaskById(taskId, userId)
    IN  IF loaded # "ok" THEN loaded
    ELSE IF ~checkTaskPermission(TaskRow(taskId), userId, "update") THEN "Forbidden"
    ELSE IF dto.columnId # Undefined /\ dto.columnId # TaskRow(taskId).columnId
         THEN validateColumnAccess(dto.columnId, TaskRow(taskId).projectId)
    ELSE "ok"

\* Object.assign(task, updateTaskDto)
assignDto(task, dto) ==
    [task EXCEPT !.columnId = IF dto.columnId # Undefined THEN dto.columnId ELSE @,
                 !.assigneeId = IF dto.assigneeId # Undefined THEN dto.assigneeId ELSE @]

\* the notifications for assignee changes, old assignee first
assigneeNotifications(table, oldAssigneeId, newAssigneeId, userId) ==
    IF oldAssigneeId = newAssigneeId THEN table
    ELSE LET table1 == IF oldAssigneeId # Null /\ oldAssigneeId # userId
                       THEN Notify(table, "task-unassigned", <<oldAssigneeId>>)
                       ELSE table
         IN  IF newAssigneeId \notin {Undefined, Null} /\ newAssigneeId # userId
             THEN Notify(table1, "task-assigned", <<newAssigneeId>>)
             ELSE table1

\* updateTask when the row is saved before the new column is validated
UpdateTaskSavesFirst(taskId, dto, userId) ==
    LET res == updateTaskOutcome(taskId, dto, userId)
        permitted == /\ getTaskById(taskId, userId) = "ok"
                     /\ checkTaskPermission(TaskRow(taskId), userId, "update")
    IN  /\ last' = Call("updateTask", res, "none")
        /\ tasks' = IF permitted THEN SaveRow(tasks, assignDto(TaskRow(taskId), dto)) ELSE tasks
        /\ notifications' = IF res = "ok"
                            THEN assigneeNotifications(notifications,
                                     TaskRow(taskId).assigneeId, dto.assigneeId, userId)
                            ELSE notifications
        /\ Len(notifications') <= MaxNotifications
        /\ UNCHANGED <<calls, users, refreshTokens, userRoles, projects, members, boards, columns,
                       nextProjectId, nextTaskId, clock>>

UpdateTask(taskId, dto, userId) ==
    LET res == updateTaskOutcome(taskId, dto, userId)
    IN  /\ last' = Call("updateTask", res, "none")
        /\ IF res = "ok"
           THEN /\ tasks' = SaveRow(tasks, assignDto(TaskRow(taskId), dto))
                /\ notifications' = assigneeNotifications(notifications,
                       TaskRow(taskId).assigneeId, dto.assigneeId, userId)
                /\ Len(notifications') <= MaxNotifications
           ELSE UNCHANGED <<tasks, notifications>>
        /\ UNCHANGED <<calls, users, refreshTokens, userRoles, projects, members, boards, columns,
                       nextProjectId, nextTaskId, clock>>

deleteTaskOutcome(taskId, userId) ==
    LET loaded == getTaskById(taskId, userId)
    IN  IF loaded # "ok" THEN loaded
    ELSE IF ~checkTaskPermission(TaskRow(taskId), userId, "delete") THEN "Forbidden"
    ELSE "ok"

DeleteTask(taskId, userId) ==
    LET res == deleteTaskOutcome(taskId, userId)
    IN  /\ last' = Call("deleteTask", res, "none")
        /\ tasks' = IF res = "ok" THEN tasks \ FindRows(tasks, taskId) ELSE tasks
        /\ UNCHANGED <<calls, users, refreshTokens, userRoles, projects, members, boards, columns, notifications,
                       nextProjectId, nextTaskId, clock>>

addCommentOutcome(taskId, userId) ==
    LET loaded == getTaskById(taskId, userId)
    IN  IF loaded # "ok" THEN loaded
    ELSE IF ~checkTaskPermission(TaskRow(taskId), userId, "comment") THEN "Forbidden"
    ELSE "ok"

\* [task.assigneeId, task.createdById].filter(id => id && id !== userId)
notifyUsers(task, userId) ==
    SelectSeq(<<task.assigneeId, task.createdById>>, LAMBDA id : id # Null /\ id # userId)

\* Date.now() is the clock, which has advanced since the last call or has not
AddComment(taskId, userId) ==
    LET res == addCommentOutcome(taskId, userId)
    IN  /\ last' = Call("addComment", res, "none")
        /\ IF res = "ok"
           THEN /\ Len(TaskRow(taskId).comments) < MaxComments
                /\ \E now \in {clock, clock + 1} :
                      /\ clock' = now
                      /\ tasks' = SaveRow(tasks, [TaskRow(taskId) EXCEPT !.comments =
                                      Append(@, [id |-> now, userId |-> userId])])
                /\ notifications' = Notify(notifications, "task-commented",
                                           notifyUsers(TaskRow(taskId), userId))
                /\ Len(notifications') <= MaxNotifications
           ELSE UNCHANGED <<tasks, notifications, clock>>
        /\ UNCHANGED <<calls, users, refreshTokens, userRoles, projects, members, boards, columns,
                       nextProjectId, nextTaskId>>

(***************************************************************************)
(* ProjectsService: private helpers and findProjectById.                   *)
(***************************************************************************)
\* ProjectsService.checkProjectAccess: a boolean, the status is not looked at
projectsCheckProjectAccess(projectId, userId) ==
    \/ \E p \in FindRows(projects, projectId) : p.ownerId = userId
    \/ activeMember(projectId, userId) # {}

isProjectAdmin(projectId, userId) ==
    \E m \in activeMember(projectId, userId) : m.role = ADMIN

\* findProjectById with the access check ahead of the existence check
findProjectByIdAccessFirst(id, userId) ==
    IF ~projectsCheckProjectAccess(id, userId) THEN "Forbidden"
    ELSE IF activeProject(id) = {} THEN "NotFound"
    ELSE "ok"

findProjectById(id, userId) ==
    IF activeProject(id) = {} THEN "NotFound"
    ELSE IF ~projectsCheckProjectAccess(id, userId) THEN "Forbidden"
    ELSE "ok"

ProjectRow(id) == CHOOSE p \in projects : p.id = id

\* the check that lets every user through who passed findProjectById
ownerOrAdminOrMember(projectId, userId) == findProjectById(projectId, userId)

\* "Only project owner or admin can ..." after findProjectById
ownerOrAdmin(projectId, userId) ==
    LET found == findProjectById(projectId, userId)
    IN  IF found # "ok" THEN found
    ELSE IF ProjectRow(projectId).ownerId # userId /\ ~isProjectAdmin(projectId, userId)
         THEN "Forbidden"
    ELSE "ok"

\* "Only project owner can delete project" after findProjectById
ownerOnly(id, userId) ==
    LET found == findProjectById(id, userId)
    IN  IF found # "ok" THEN found
    ELSE IF ProjectRow(id).ownerId # userId THEN "Forbidden"
    ELSE "ok"

(***************************************************************************)
(* ProjectsService.findProjectById as an operation (getProject) and        *)
(* updateProject.  dto: [name], the field that the request merges.         *)
(***************************************************************************)
GetProject(id, userId) ==
    LET res == findProjectById(id, userId)
    IN  /\ last' = [op |-> "getProject", res |-> res, failAt |-> "none",
                    returned |-> IF res = "ok" THEN activeProject(id) ELSE {}]
        /\ UNCHANGED <<calls, users, refreshTokens, userRoles, projects, members, boards,
                       columns, tasks, notifications, nextProjectId, nextTaskId, clock>>

UpdateProject(id, dto, userId) ==
    LET res == ownerOrAdmin(id, userId)
    IN  /\ last' = Call("updateProject", res, "none")
        /\ projects' = IF res = "ok"
                       THEN SaveRow(projects, [ProjectRow(id) EXCEPT !.name = dto.name])
                       ELSE projects
        /\ UNCHANGED <<calls, users, refreshTokens, userRoles, members, boards, columns,
                       tasks, notifications, nextProjectId, nextTaskId, clock>>

(***************************************************************************)
(* ProjectsService.findAllProjects (listProjects).  The two where strings  *)
(* are joined as written, A OR B AND C, with no brackets around the first: *)
(* AND binds tighter than OR.  Rows are inserted with createdAt = now and  *)
(* an auto-increment id, so that the newer row has the larger id.          *)
(***************************************************************************)
\* leftJoin(project_members pm on pm.projectId = project.id and pm.userId = userId)
joinedMembers(project, userId) ==
    {m \in members : m.projectId = project.id /\ m.userId = userId}

\* where('project.ownerId = :userId OR pm.userId = :userId')
\*   .andWhere('project.status != :deletedStatus')
findAllProjectsWhere(project, userId) ==
    \/ project.ownerId = userId
    \/ /\ joinedMembers(project, userId) # {}
       /\ project.status # "deleted"

RECURSIVE NewestFirst(_)
\* orderBy('project.createdAt', 'DESC')
NewestFirst(rows) ==
    IF rows = {} THEN <<>>
    ELSE LET newest == CHOOSE r \in rows : \A x \in rows : x.id <= r.id
         IN  <<newest>> \o NewestFirst(rows \ {newest})

\* skip(offset).take(limit)
PageSlice(list, page, limit) ==
    LET offset == (page - 1) * limit
        lastIndex == IF offset + limit < Len(list) THEN offset + limit ELSE Len(list)
    IN  SubSeq(list, offset + 1, lastIndex)

findAllProjects(userId, page, limit) ==
    LET found == {p \in projects : findAllProjectsWhere(p, userId)}
    IN  [projects |-> PageSlice(NewestFirst(found), page, limit),
         total |-> Cardinality(found)]

ListProjects(userId, page, limit) ==
    /\ last' = [op |-> "listProjects", res |-> "ok", failAt |-> "none",
                returned |-> findAllProjects(userId, page, limit)]
    /\ UNCHANGED <<calls, users, refreshTokens, userRoles, projects, members, boards,
                   columns, tasks, notifications, nextProjectId, nextTaskId, clock>>

(***************************************************************************)
(* ProjectsService.createProject.  failAt names the write that throws:     *)
(* "none", "project" (the project row) or "member" (the membership row).   *)
(***************************************************************************)
\* the tables after the try block got as far as it could: <<projects, members>>
createProjectWrites(ownerId, failAt) ==
    LET project == [id |-> nextProjectId, ownerId |-> ownerId, status |-> "active", name |-> 1]
        member == [projectId |-> nextProjectId, userId |-> ownerId,
                   role |-> ADMIN, isActive |-> TRUE]
    IN  IF failAt = "project" THEN <<projects, members>>
        ELSE IF failAt = "member" THEN <<projects \cup {project}, members>>
        ELSE <<projects \cup {project}, members \cup {member}>>

\* catch: rollbackTransaction gives back the tables as they were at startTransaction
createProjectNoRollback(ownerId, failAt) ==
    createProjectWrites(ownerId, failAt)

createProjectCommitted(ownerId, failAt) ==
    IF failAt = "none" THEN createProjectWrites(ownerId, failAt)
    ELSE <<projects, members>>

CreateProject(ownerId, failAt) ==
    /\ nextProjectId \in ProjectIds
    /\ last' = Call("createProject", IF failAt = "none" THEN "ok" ELSE "Error", failAt)
    /\ projects' = createProjectCommitted(ownerId, failAt)[1]
    /\ members' = createProjectCommitted(ownerId, failAt)[2]
    /\ nextProjectId' = IF failAt = "none" THEN nextProjectId + 1 ELSE nextProjectId
    /\ UNCHANGED <<calls, users, refreshTokens, userRoles, boards, columns, tasks, notifications, nextTaskId, clock>>

(***************************************************************************)
(* ProjectsService.addProjectMember and removeProjectMember.               *)
(***************************************************************************)
\* the existence check when it looks at active rows only
existingMemberActiveOnly(projectId, memberUserId) ==
    {m \in members : m.projectId = projectId /\ m.userId = memberUserId /\ m.isActive}

\* findOne({ where: { projectId, userId: memberUserId } }): active or not
existingMember(projectId, memberUserId) ==
    {m \in members : m.projectId = projectId /\ m.userId = memberUserId}

addProjectMemberOutcome(projectId, memberUserId, currentUserId) ==
    LET allowed == ownerOrAdmin(projectId, currentUserId)
    IN  IF allowed # "ok" THEN allowed
    ELSE IF FindRows(users, memberUserId) = {} THEN "NotFound"
    ELSE IF existingMember(projectId, memberUserId) # {} THEN "Conflict"
    ELSE "ok"

AddProjectMember(projectId, memberUserId, role, currentUserId) ==
    LET res == addProjectMemberOutcome(projectId, memberUserId, currentUserId)
    IN  /\ last' = Call("addProjectMember", res, "none")
        /\ IF res = "ok"
           THEN /\ Len(notifications) < MaxNotifications
                /\ members' = members \cup {[projectId |-> projectId, userId |-> memberUserId,
                                             role |-> role, isActive |-> TRUE]}
                /\ notifications' = Append(notifications,
                       Notification("member-added", memberUserId, projectId))
           ELSE UNCHANGED <<members, notifications>>
        /\ UNCHANGED <<calls, users, refreshTokens, userRoles, projects, boards, columns, tasks,
                       nextProjectId, nextTaskId, clock>>

\* the operation without its "Cannot remove project owner" check
removeProjectMemberOutcomeNoOwnerCheck(projectId, memberUserId, currentUserId) ==
    ownerOrAdmin(projectId, currentUserId)

removeProjectMemberOutcome(projectId, memberUserId, currentUserId) ==
    LET allowed == ownerOrAdmin(projectId, currentUserId)
    IN  IF allowed # "ok" THEN allowed
    ELSE IF ProjectRow(projectId).ownerId = memberUserId THEN "Forbidden"
    ELSE "ok"

RemoveProjectMember(projectId, memberUserId, currentUserId) ==
    LET res == removeProjectMemberOutcome(projectId, memberUserId, currentUserId)
    IN  /\ last' = Call("removeProjectMember", res, "none")
        /\ IF res = "ok"
           THEN /\ Len(notifications) < MaxNotifications
                /\ members' = {IF m.projectId = projectId /\ m.userId = memberUserId
                                  THEN [m EXCEPT !.isActive = FALSE] ELSE m : m \in members}
                /\ notifications' = Append(notifications,
                       Notification("member-removed", memberUserId, projectId))
           ELSE UNCHANGED <<members, notifications>>
        /\ UNCHANGED <<calls, users, refreshTokens, userRoles, projects, boards, columns, tasks,
                       nextProjectId, nextTaskId, clock>>

\* getProjectMembers (the listing of the members): the active rows of the project
GetProjectMembers(projectId, userId) ==
    LET res == findProjectById(projectId, userId)
    IN  /\ last' = [op |-> "getProjectMembers", res |-> res, failAt |-> "none",
                    returned |-> IF res = "ok"
                                 THEN {m \in members : m.projectId = projectId /\ m.isActive}
                                 ELSE {}]
        /\ UNCHANGED <<calls, users, refreshTokens, userRoles, projects, members, boards,
                       columns, tasks, notifications, nextProjectId, nextTaskId, clock>>

(***************************************************************************)
(* ProjectsService.softDeleteProject (tasks.service.ts, second class).     *)
(***************************************************************************)
BoardIdsOf(table, projectId) == {b.id : b \in {r \in table : r.projectId = projectId}}

\* the cascade without its step 4
softDeleteColumnsSkipped(boardIds) == columns

\* step 4: the columns of the project's boards, when it has any board
softDeleteColumns(boardIds) ==
    IF boardIds # {}
    THEN {IF c.boardId \in boardIds /\ c.isActive
             THEN [c EXCEPT !.isActive = FALSE] ELSE c : c \in columns}
    ELSE columns

\* steps 1-6 of the transaction, in the order of the code
softDeleteProjectWrites(id) ==
    LET projects1 == SaveRow(projects, [ProjectRow(id) EXCEPT !.status = "deleted"])
        members1 == {IF m.projectId = id /\ m.isActive
                        THEN [m EXCEPT !.isActive = FALSE] ELSE m : m \in members}
        boards1 == {IF b.projectId = id /\ b.isActive
                       THEN [b EXCEPT !.isActive = FALSE] ELSE b : b \in boards}
        boardIds == BoardIdsOf(boards1, id)
        columns1 == softDeleteColumns(boardIds)
        tasks1 == {IF t.projectId = id /\ ~t.deletedAt
                      THEN [t EXCEPT !.deletedAt = TRUE] ELSE t : t \in tasks}
        notifications1 == [i \in 1..Len(notifications) |->
                              IF notifications[i].projectId = id
                                    /\ notifications[i].status = "unread"
                              THEN [notifications[i] EXCEPT !.status = "archived"]
                              ELSE notifications[i]]
    IN  [projects |-> projects1, members |-> members1, boards |-> boards1,
         columns |-> columns1, tasks |-> tasks1, notifications |-> notifications1]

Unwritten ==
    [projects |-> projects, members |-> members, boards |-> boards,
     columns |-> columns, tasks |-> tasks, notifications |-> notifications]

SoftDeleteProjectAs(op, id, userId) ==
    LET res == ownerOnly(id, userId)
        w == IF res = "ok" THEN softDeleteProjectWrites(id) ELSE Unwritten
    IN  /\ last' = Call(op, res, "none")
        /\ projects' = w.projects
        /\ members' = w.members
        /\ boards' = w.boards
        /\ columns' = w.columns
        /\ tasks' = w.tasks
        /\ notifications' = w.notifications
        /\ UNCHANGED <<calls, users, refreshTokens, userRoles, nextProjectId, nextTaskId, clock>>

SoftDeleteProject(id, userId) == SoftDeleteProjectAs("softDeleteProject", id, userId)

softDeleteProjectOrder == <<"projects", "members", "boards", "columns", "tasks", "notifications">>

\* softDeleteProject when a write of its transaction, or the commit, throws
SoftDeleteProjectFails(id, userId, failAt) ==
    LET w == rollbackTransaction(Unwritten,
                 partialWrites(Unwritten, softDeleteProjectWrites(id),
                               softDeleteProjectOrder, failAt))
    IN  /\ ownerOnly(id, userId) = "ok"
        /\ last' = Call("softDeleteProject", "Error", failAt)
        /\ projects' = w.projects
        /\ members' = w.members
        /\ boards' = w.boards
        /\ columns' = w.columns
        /\ tasks' = w.tasks
        /\ notifications' = w.notifications
        /\ UNCHANGED <<calls, users, refreshTokens, userRoles, nextProjectId, nextTaskId, clock>>

(***************************************************************************)
(* ProjectsService.hardDeleteProject (tasks.service.ts, second class).     *)
(***************************************************************************)
\* the purge without the delete of the notifications
hardDeleteNotificationsSkipped(id) == notifications

\* step 5: delete the notifications of the project
hardDeleteNotifications(id) == SelectSeq(notifications, LAMBDA n : n.projectId # id)

hardDeleteProjectWrites(id) ==
    LET members1 == {m \in members : m.projectId # id}
        boardIds == BoardIdsOf(boards, id)
        tasks1 == IF boardIds # {} THEN {t \in tasks : t.boardId \notin boardIds} ELSE tasks
        columns1 == IF boardIds # {} THEN {c \in columns : c.boardId \notin boardIds} ELSE columns
        boards1 == IF boardIds # {} THEN {b \in boards : b.projectId # id} ELSE boards
        tasks2 == {t \in tasks1 : t.projectId # id}
        notifications1 == hardDeleteNotifications(id)
        projects1 == {p \in projects : p.id # id}
    IN  [projects |-> projects1, members |-> members1, boards |-> boards1,
         columns |-> columns1, tasks |-> tasks2, notifications |-> notifications1]

HardDeleteProject(id, userId) ==
    LET res == ownerOnly(id, userId)
        w == IF res = "ok" THEN hardDeleteProjectWrites(id) ELSE Unwritten
    IN  /\ last' = Call("hardDeleteProject", res, "none")
        /\ projects' = w.projects
        /\ members' = w.members
        /\ boards' = w.boards
        /\ columns' = w.columns
        /\ tasks' = w.tasks
        /\ notifications' = w.notifications
        /\ UNCHANGED <<calls, users, refreshTokens, userRoles, nextProjectId, nextTaskId, clock>>

\* (the second delete of tasks, by projectId, is counted with the first)
hardDeleteProjectOrder == <<"members", "tasks", "columns", "boards", "notifications", "projects">>

\* hardDeleteProject when a delete of its transaction, or the commit, throws
HardDeleteProjectFails(id, userId, failAt) ==
    LET w == rollbackTransaction(Unwritten,
                 partialWrites(Unwritten, hardDeleteProjectWrites(id),
                               hardDeleteProjectOrder, failAt))
    IN  /\ ownerOnly(id, userId) = "ok"
        /\ last' = Call("hardDeleteProject", "Error", failAt)
        /\ projects' = w.projects
        /\ members' = w.members
        /\ boards' = w.boards
        /\ columns' = w.columns
        /\ tasks' = w.tasks
        /\ notifications' = w.notifications
        /\ UNCHANGED <<calls, users, refreshTokens, userRoles, nextProjectId, nextTaskId, clock>>

(***************************************************************************)
(* deleteProject: the method of projects.service.ts (lines 109-122), which *)
(* only sets the status, and the compatibility method of the second class  *)
(* (tasks.service.ts, lines 699-702), which forwards to softDeleteProject. *)
(***************************************************************************)
DeleteProject(id, userId) ==
    LET res == ownerOnly(id, userId)
    IN  /\ last' = Call("deleteProject", res, "none")
        /\ projects' = IF res = "ok"
                       THEN SaveRow(projects, [ProjectRow(id) EXCEPT !.status = "deleted"])
                       ELSE projects
        /\ UNCHANGED <<calls, users, refreshTokens, userRoles, members, boards, columns, tasks, notifications,
                       nextProjectId, nextTaskId, clock>>

DeleteProjectLegacy(id, userId) == SoftDeleteProjectAs("deleteProject", id, userId)

(***************************************************************************)
(* UsersService (users.service.ts): softDeleteUser and hardDeleteUser.     *)
(* failAt names the write of the transaction that is made to fail ("none"  *)
(* when none fails): the catch block rolls the transaction back.           *)
(***************************************************************************)
UserRow(userId) == CHOOSE r \in users : r.id = userId

\* the checks of softDeleteUser without the one on the caller
softDeleteUserOutcomeNoSelfCheck(userId, currentUserId) ==
    IF FindRows(users, userId) = {} THEN "NotFound" ELSE "ok"

\* the checks at the top of softDeleteUser, in the order of the code
softDeleteUserOutcome(userId, currentUserId) ==
    IF userId = currentUserId THEN "Forbidden"
    ELSE IF FindRows(users, userId) = {} THEN "NotFound"
    ELSE "ok"

\* the checks at the top of hardDeleteUser, in the order of the code
hardDeleteUserOutcome(userId, currentUserId) ==
    IF userId = currentUserId THEN "Forbidden"
    ELSE IF FindRows(users, userId) = {} THEN "NotFound"
    ELSE "ok"

AllUnwritten ==
    [users |-> users, refreshTokens |-> refreshTokens, userRoles |-> userRoles,
     projects |-> projects, members |-> members, boards |-> boards,
     columns |-> columns, tasks |-> tasks, notifications |-> notifications]

\* the cascade without its step 5
softDeleteAssignedTasksSkipped(table, userId) == table

\* step 5: the tasks assigned to the user that are not yet deleted
softDeleteAssignedTasks(table, userId) ==
    {IF t.assigneeId = userId /\ ~t.deletedAt
        THEN [t EXCEPT !.deletedAt = TRUE] ELSE t : t \in table}

\* the cascade without its step 2
softDeleteOwnedProjectsSkipped(table, userId) == table

\* step 2: the active projects the user owns get the status deleted
softDeleteOwnedProjects(table, userId) ==
    {IF p.ownerId = userId /\ p.status = "active"
        THEN [p EXCEPT !.status = "deleted"] ELSE p : p \in table}

\* steps 1-7 of the transaction of softDeleteUser, in the order of the code
softDeleteUserWrites(userId) ==
    LET users1 == SaveRow(users, [UserRow(userId) EXCEPT !.deletedAt = TRUE,
                                                         !.isActive = FALSE])
        projects1 == softDeleteOwnedProjects(projects, userId)
        members1 == {IF m.userId = userId /\ m.isActive
                        THEN [m EXCEPT !.isActive = FALSE] ELSE m : m \in members}
        tasks1 == {IF t.createdById = userId /\ ~t.deletedAt
                      THEN [t EXCEPT !.deletedAt = TRUE] ELSE t : t \in tasks}
        tasks2 == softDeleteAssignedTasks(tasks1, userId)
        notifications1 == [i \in 1..Len(notifications) |->
                              IF notifications[i].userId = userId
                                    /\ notifications[i].status = "unread"
                              THEN [notifications[i] EXCEPT !.status = "archived"]
                              ELSE notifications[i]]
        refreshTokens1 == {IF k.userId = userId /\ ~k.isRevoked
                              THEN [k EXCEPT !.isRevoked = TRUE] ELSE k : k \in refreshTokens}
    IN  [users |-> users1, refreshTokens |-> refreshTokens1, userRoles |-> userRoles,
         projects |-> projects1, members |-> members1, boards |-> boards,
         columns |-> columns, tasks |-> tasks2, notifications |-> notifications1]

UserFailAts == {"none", "commit"}
softDeleteUserOrder == <<"users", "projects", "members", "tasks", "notifications", "refreshTokens">>

SoftDeleteUser(userId, currentUserId, failAt) ==
    LET res == softDeleteUserOutcome(userId, currentUserId)
        w == IF res # "ok" THEN AllUnwritten
             ELSE IF failAt = "none" THEN softDeleteUserWrites(userId)
             ELSE rollbackTransaction(AllUnwritten,
                      partialWrites(AllUnwritten, softDeleteUserWrites(userId),
                                    softDeleteUserOrder, failAt))
    IN  /\ last' = Call("softDeleteUser",
                        IF res = "ok" /\ failAt # "none" THEN "Error" ELSE res,
                        IF res = "ok" THEN failAt ELSE "none")
        /\ users' = w.users
        /\ refreshTokens' = w.refreshTokens
        /\ userRoles' = w.userRoles
        /\ projects' = w.projects
        /\ members' = w.members
        /\ boards' = w.boards
        /\ columns' = w.columns
        /\ tasks' = w.tasks
        /\ notifications' = w.notifications
        /\ UNCHANGED <<calls, nextProjectId, nextTaskId, clock>>

\* find('projects', { where: { ownerId: userId } }), active projects only
ownedActiveProjectIds(userId) ==
    {p.id : p \in {r \in projects : r.ownerId = userId /\ r.status = "active"}}

\* find('projects', { where: { ownerId: userId } }): the ids of the rows found
ownedProjectIds(userId) == {p.id : p \in {r \in projects : r.ownerId = userId}}

\* the body of the loop over the owned projects, for one project
purgeOwnedProject(w, projectId) ==
    LET members1 == {m \in w.members : m.projectId # projectId}
        boardIds == BoardIdsOf(w.boards, projectId)
        tasks1 == {t \in w.tasks : t.boardId \notin boardIds}
        columns1 == {c \in w.columns : c.boardId \notin boardIds}
        boards1 == {b \in w.boards : b.projectId # projectId}
        tasks2 == {t \in tasks1 : t.projectId # projectId}
        notifications1 == SelectSeq(w.notifications, LAMBDA n : n.projectId # projectId)
    IN  [w EXCEPT !.members = members1, !.boards = boards1, !.columns = columns1,
                  !.tasks = tasks2, !.notifications = notifications1]

RECURSIVE purgeOwnedProjects(_, _)
\* for (const project of projects) { ... }
purgeOwnedProjects(w, projectIds) ==
    IF projectIds = {} THEN w
    ELSE LET projectId == CHOOSE id \in projectIds : \A other \in projectIds : id <= other
         IN  purgeOwnedProjects(purgeOwnedProject(w, projectId), projectIds \ {projectId})

\* steps 1-8 of the transaction of hardDeleteUser, in the order of the code
hardDeleteUserWrites(userId) ==
    LET w1 == purgeOwnedProjects(AllUnwritten, ownedProjectIds(userId))
        projects1 == {p \in w1.projects : p.ownerId # userId}
        members1 == {m \in w1.members : m.userId # userId}
        tasks1 == {t \in w1.tasks : t.createdById # userId}
        tasks2 == {t \in tasks1 : t.assigneeId # userId}
        notifications1 == SelectSeq(w1.notifications, LAMBDA n : n.userId # userId)
        refreshTokens1 == {k \in refreshTokens : k.userId # userId}
        userRoles1 == {r \in userRoles : r.userId # userId}
        users1 == {r \in users : r.id # userId}
    IN  [users |-> users1, refreshTokens |-> refreshTokens1, userRoles |-> userRoles1,
         projects |-> projects1, members |-> members1, boards |-> w1.boards,
         columns |-> w1.columns, tasks |-> tasks2, notifications |-> notifications1]

\* (a table deleted from more than once is counted at its first delete)
hardDeleteUserOrder == <<"members", "tasks", "columns", "boards", "notifications", "projects",
                         "refreshTokens", "userRoles", "users">>

HardDeleteUser(userId, currentUserId, failAt) ==
    LET res == hardDeleteUserOutcome(userId, currentUserId)
        w == IF res # "ok" THEN AllUnwritten
             ELSE IF failAt = "none" THEN hardDeleteUserWrites(userId)
             ELSE rollbackTransaction(AllUnwritten,
                      partialWrites(AllUnwritten, hardDeleteUserWrites(userId),
                                    hardDeleteUserOrder, failAt))
    IN  /\ last' = Call("hardDeleteUser",
                        IF res = "ok" /\ failAt # "none" THEN "Error" ELSE res,
                        IF res = "ok" THEN failAt ELSE "none")
        /\ users' = w.users
        /\ refreshTokens' = w.refreshTokens
        /\ userRoles' = w.userRoles
        /\ projects' = w.projects
        /\ members' = w.members
        /\ boards' = w.boards
        /\ columns' = w.columns
        /\ tasks' = w.tasks
        /\ notifications' = w.notifications
        /\ UNCHANGED <<calls, nextProjectId, nextTaskId, clock>>

(***************************************************************************)
(* The operations when the notification sink rejects the first call made   *)
(* to it.  The four methods await the sink's call outside any try block    *)
(* and after their save: the rejection leaves the method as an exception.  *)
(***************************************************************************)
AddProjectMemberSinkFails(projectId, memberUserId, role, currentUserId) ==
    /\ addProjectMemberOutcome(projectId, memberUserId, currentUserId) = "ok"
    /\ members' = members \cup {[projectId |-> projectId, userId |-> memberUserId,
                                 role |-> role, isActive |-> TRUE]}
    /\ last' = Call("addProjectMember", "Error", "notify")
    /\ UNCHANGED <<calls, users, refreshTokens, userRoles, projects, boards, columns, tasks,
                   notifications, nextProjectId, nextTaskId, clock>>

RemoveProjectMemberSinkFails(projectId, memberUserId, currentUserId) ==
    /\ removeProjectMemberOutcome(projectId, memberUserId, currentUserId) = "ok"
    /\ members' = {IF m.projectId = projectId /\ m.userId = memberUserId
                      THEN [m EXCEPT !.isActive = FALSE] ELSE m : m \in members}
    /\ last' = Call("removeProjectMember", "Error", "notify")
    /\ UNCHANGED <<calls, users, refreshTokens, userRoles, projects, boards, columns, tasks,
                   notifications, nextProjectId, nextTaskId, clock>>

\* enabled when updateTask has a notification to send
UpdateTaskSinkFails(taskId, dto, userId) ==
    /\ updateTaskOutcome(taskId, dto, userId) = "ok"
    /\ assigneeNotifications(notifications, TaskRow(taskId).assigneeId,
                             dto.assigneeId, userId) # notifications
    /\ tasks' = SaveRow(tasks, assignDto(TaskRow(taskId), dto))
    /\ last' = Call("updateTask", "Error", "notify")
    /\ UNCHANGED <<calls, users, refreshTokens, userRoles, projects, members, boards, columns,
                   notifications, nextProjectId, nextTaskId, clock>>

\* enabled when addComment has a user to notify
AddCommentSinkFails(taskId, userId) ==
    /\ addCommentOutcome(taskId, userId) = "ok"
    /\ notifyUsers(TaskRow(taskId), userId) # <<>>
    /\ Len(TaskRow(taskId).comments) < MaxComments
    /\ \E now \in {clock, clock + 1} :
          /\ clock' = now
          /\ tasks' = SaveRow(tasks, [TaskRow(taskId) EXCEPT !.comments =
                          Append(@, [id |-> now, userId |-> userId])])
    /\ last' = Call("addComment", "Error", "notify")
    /\ UNCHANGED <<calls, users, refreshTokens, userRoles, projects, members, boards, columns,
                   notifications, nextProjectId, nextTaskId>>

(***************************************************************************)
(* The board with three tasks: the specification of the ordering claims.   *)
(* Project 1 (owner 1, member 2) has board 1 with columns 1 and 2; column  *)
(* 1 holds tasks 1, 2, 3 at orders 0, 1, 2.  User 3 is no member.          *)
(***************************************************************************)
SeedUsers == {[id |-> u, isActive |-> TRUE, deletedAt |-> FALSE] : u \in UserIds}

\* one session of every user and its role assignment
SeedTokens == {[id |-> u, userId |-> u, isRevoked |-> FALSE] : u \in UserIds}
SeedUserRoles == {[userId |-> u, roleId |-> 1] : u \in UserIds}

SeedTask(id, columnId, order) ==
    [id |-> id, projectId |-> 1, boardId |-> 1, columnId |-> columnId,
     createdById |-> 1, assigneeId |-> Null, order |-> order,
     deletedAt |-> FALSE, comments |-> <<>>]

InitOrder ==
    /\ users = SeedUsers
    /\ refreshTokens = SeedTokens
    /\ userRoles = SeedUserRoles
    /\ projects = {[id |-> 1, ownerId |-> 1, status |-> "active", name |-> 1]}
    /\ members = {[projectId |-> 1, userId |-> 1, role |-> ADMIN, isActive |-> TRUE],
                  [projectId |-> 1, userId |-> 2, role |-> MEMBER, isActive |-> TRUE]}
    /\ boards = {[id |-> 1, projectId |-> 1, isActive |-> TRUE]}
    /\ columns = {[id |-> 1, boardId |-> 1, isActive |-> TRUE],
                  [id |-> 2, boardId |-> 1, isActive |-> TRUE]}
    /\ tasks = {SeedTask(1, 1, 0), SeedTask(2, 1, 1), SeedTask(3, 1, 2)}
    /\ notifications = <<>>
    /\ nextProjectId = 2
    /\ nextTaskId = 4
    /\ clock = 0
    /\ calls = <<>>
    /\ last = Call("init", "ok", "none")

OrderColumnIds == {1, 2, 3}     \* column 3 does not exist
OrderTaskIds == {1, 2, 3, 4}    \* task 4 does not exist

\* reorder calls: every list by the owner on the two columns, and the empty
\* list by every user on every column id
ReorderInputs ==
    ({1, 2} \X SeqsOver(OrderTaskIds \ {4}, MaxIds) \X {1})
        \cup (OrderColumnIds \X {<<>>} \X UserIds)

NextOrder ==
    \/ \E t \in OrderTaskIds, c \in OrderColumnIds, k \in 0..MaxOrder \cup {Undefined}, u \in UserIds :
          MoveTask(t, c, k, u)
    \/ \E in \in ReorderInputs : ReorderTasksInColumn(in[1], in[2], in[3])

SpecOrder == InitOrder /\ [][NextOrder]_vars


(***************************************************************************)
(* Ordering claims.                                                        *)
(***************************************************************************)
ActiveTasksIn(table, c) == {t \in table : t.columnId = c /\ ~t.deletedAt}
RowsIn(table, c) == {t \in table : t.columnId = c}

\* the orders of a set of rows are exactly 0..N-1, each taken once
DenseOrders(rows) ==
    /\ {t.order : t \in rows} = 0..(Cardinality(rows) - 1)
    /\ Cardinality({t.order : t \in rows}) = Cardinality(rows)

\* C1: after any sequence of completed moveTask and reorderTasksInColumn calls,
\* the orders of the active tasks of every column are exactly 0..N-1 (no gap, no
\* duplicate), the column a task was moved out of included.
C1_DenseAfterMoveAndReorder ==
    \A c \in {col.id : col \in columns} : DenseOrders(ActiveTasksIn(tasks, c))

\* the number of the other rows of the column that come before row o
RankAmong(others, o) == Cardinality({x \in others : x.order < o.order})

\* C2: moveTask(t, c, k) by a permitted actor into a column with dense orders,
\* 0 <= k <= number of other tasks of c: t ends in c at order k, the other tasks
\* of c keep their relative order, those at position k or later (position counted
\* among the other tasks) move one place further and the rest keep their place,
\* and the orders of c are exactly 0..N-1.
C2_MoveToExplicitOrder ==
    [][(last'.op = "moveTask" /\ last'.res = "ok") =>
       \A c \in OrderColumnIds : DenseOrders(RowsIn(tasks, c)) =>
       \A t \in OrderTaskIds, u \in UserIds : moveTaskOutcome(t, c, u) = "ok" =>
       \A k \in 0..MaxOrder :
         LET others == {x \in RowsIn(tasks, c) : x.id # t}
         IN  (k <= Cardinality(others) /\ MoveTask(t, c, k, u))
             => /\ \E m \in tasks' : m.id = t /\ m.columnId = c /\ m.order = k
                /\ \A o \in others : \E n \in tasks' :
                      /\ n.id = o.id /\ n.columnId = c
                      /\ n.order = IF RankAmong(others, o) < k
                                   THEN RankAmong(others, o)
                                   ELSE RankAmong(others, o) + 1
                /\ \A o1, o2 \in others : o1.order < o2.order =>
                      \E n1, n2 \in tasks' :
                         n1.id = o1.id /\ n2.id = o2.id /\ n1.order < n2.order
                /\ \A o \in others : o.order >= k /\ (\A x \in tasks : x.id = t => x.columnId # c) =>
                      \E n \in tasks' : n.id = o.id /\ n.order = o.order + 1
                /\ DenseOrders(RowsIn(tasks', c))
                /\ Cardinality(tasks') = Cardinality(tasks)
      ]_vars

\* C2 witness: the example [A=0, B=1, C=2], moveTask(C, same column, 0): C=0, A=1, B=2
C2_Witness ==
    /\ last = Call("moveTask", "ok", "none")
    /\ \E a, b, c \in tasks :
          /\ a.id = 1 /\ b.id = 2 /\ c.id = 3
          /\ a.columnId = 1 /\ b.columnId = 1 /\ c.columnId = 1
          /\ c.order = 0 /\ a.order = 1 /\ b.order = 2


(***************************************************************************)
(* The project lifecycle: the specification of the membership and cascade  *)
(* claims.  Project 1 (owner 1) has boards 1 and 3, columns 1, 2 (board 1) *)
(* and 3 (board 3), two tasks and a read notification; user 2 is a member  *)
(* of it, user 3 was one and has been removed.  Project 2 is created by    *)
(* createProject and has no board.                                         *)
(***************************************************************************)
InitProject ==
    /\ users = SeedUsers
    /\ refreshTokens = SeedTokens
    /\ userRoles = SeedUserRoles
    /\ projects = {[id |-> 1, ownerId |-> 1, status |-> "active", name |-> 1]}
    /\ members = {[projectId |-> 1, userId |-> 1, role |-> ADMIN, isActive |-> TRUE],
                  [projectId |-> 1, userId |-> 2, role |-> MEMBER, isActive |-> TRUE],
                  [projectId |-> 1, userId |-> 3, role |-> MEMBER, isActive |-> FALSE]}
    /\ boards = {[id |-> 1, projectId |-> 1, isActive |-> TRUE],
                 [id |-> 3, projectId |-> 1, isActive |-> FALSE]}
    /\ columns = {[id |-> 1, boardId |-> 1, isActive |-> TRUE],
                  [id |-> 2, boardId |-> 1, isActive |-> FALSE],
                  [id |-> 3, boardId |-> 3, isActive |-> TRUE]}
    /\ tasks = {SeedTask(1, 1, 0), [SeedTask(2, 3, 0) EXCEPT !.boardId = 3]}
    /\ notifications =
          <<[Notification("member-added", 2, 1) EXCEPT !.status = "read"]>>
    /\ nextProjectId = 2
    /\ nextTaskId = 3
    /\ clock = 0
    /\ calls = <<>>
    /\ last = Call("init", "ok", "none")

FailAts == {"none", "project", "member"}
CallProjectIds == ProjectIds     \* project 2 is missing until it is created

NextProject ==
    \/ \E o \in UserIds, f \in FailAts : CreateProject(o, f)
    \/ \E p \in CallProjectIds, m \in UserIds, r \in ProjectRoles, u \in UserIds :
          AddProjectMember(p, m, r, u)
    \/ \E p \in CallProjectIds, m \in UserIds, u \in UserIds : RemoveProjectMember(p, m, u)
    \/ \E p \in CallProjectIds, u \in UserIds : SoftDeleteProject(p, u)
    \/ \E p \in CallProjectIds, u \in UserIds : HardDeleteProject(p, u)
    \/ \E p \in CallProjectIds, u \in UserIds : DeleteProject(p, u)
    \/ \E p \in CallProjectIds, u \in UserIds : DeleteProjectLegacy(p, u)

SpecProject == InitProject /\ [][NextProject]_vars


(***************************************************************************)
(* Project lifecycle claims.                                               *)
(***************************************************************************)
\* C3: createProject is atomic: when the save of the owner's ADMIN membership
\* row fails no project row persists (nor a membership row); when it succeeds
\* the new project row (status active) and an active ADMIN membership row of
\* the owner both exist.
C3_CreateProjectAtomic ==
    [][(last'.op = "createProject") =>
       \A o \in UserIds :
          /\ CreateProject(o, "member") => projects' = projects /\ members' = members
          /\ CreateProject(o, "none") =>
                /\ \E p \in projects' \ projects :
                      /\ p.id = nextProjectId /\ p.ownerId = o /\ p.status = "active"
                      /\ [projectId |-> p.id, userId |-> o, role |-> ADMIN,
                          isActive |-> TRUE] \in members'
                /\ Cardinality(projects') = Cardinality(projects) + 1
      ]_vars

\* C3 witness: a createProject whose membership save failed has returned and left
\* no second project, after another createProject had succeeded or not
C3_Witness ==
    /\ last = Call("createProject", "Error", "member")
    /\ \A p \in projects : p.id = 1

\* C4: after a successful softDeleteProject(p, owner): p is deleted, every
\* membership, board and column (of p's boards) is inactive, every task of p (by
\* projectId or by board) has deletedAt set, every notification of p that was
\* unread is archived, and no row of any table was removed.
C4_SoftDeleteProjectCascade ==
    [][(last'.op = "softDeleteProject" /\ last'.res = "ok") =>
       \A p \in ProjectIds, u \in UserIds :
          (ownerOnly(p, u) = "ok" /\ SoftDeleteProject(p, u)) =>
             /\ \E r \in projects' : r.id = p /\ r.status = "deleted"
             /\ \A m \in members' : m.projectId = p => ~m.isActive
             /\ \A b \in boards' : b.projectId = p => ~b.isActive
             /\ \A c \in columns' : c.boardId \in BoardIdsOf(boards', p) => ~c.isActive
             /\ \A t \in tasks' :
                   (t.projectId = p \/ t.boardId \in BoardIdsOf(boards', p)) => t.deletedAt
             /\ Len(notifications') = Len(notifications)
             /\ \A i \in 1..Len(notifications) :
                   /\ notifications[i].projectId = p /\ notifications[i].status = "unread"
                         => notifications'[i].status = "archived"
                   /\ notifications'[i].projectId = p => notifications'[i].status # "unread"
             /\ {r.id : r \in projects'} = {r.id : r \in projects}
             /\ {<<m.projectId, m.userId>> : m \in members'}
                   = {<<m.projectId, m.userId>> : m \in members}
             /\ Cardinality(members') = Cardinality(members)
             /\ {b.id : b \in boards'} = {b.id : b \in boards}
             /\ {c.id : c \in columns'} = {c.id : c \in columns}
             /\ {t.id : t \in tasks'} = {t.id : t \in tasks}
      ]_vars

\* C4 witness: project 1 was soft-deleted while it had an active board and column,
\* active members and an unread notification
C4_Witness ==
    /\ last = Call("softDeleteProject", "ok", "none")
    /\ \E r \in projects : r.id = 1 /\ r.status = "deleted"
    /\ \E i \in 1..Len(notifications) :
          notifications[i].projectId = 1 /\ notifications[i].status = "archived"
    /\ \E m \in members : m.projectId = 1 /\ m.userId = 3
    /\ Cardinality(tasks) = 2 /\ Cardinality(columns) = 3

\* C5: after a successful hardDeleteProject(p, owner) no row remains under p: no
\* membership, board, column of its boards, task (by projectId or by board),
\* notification or project row; with or without boards.
C5_HardDeleteProjectPurge ==
    [][(last'.op = "hardDeleteProject" /\ last'.res = "ok") =>
       \A p \in ProjectIds, u \in UserIds :
          (ownerOnly(p, u) = "ok" /\ HardDeleteProject(p, u)) =>
             /\ \A m \in members' : m.projectId # p
             /\ \A b \in boards' : b.projectId # p
             /\ \A c \in columns' : c.boardId \notin BoardIdsOf(boards, p)
             /\ \A t \in tasks' : t.projectId # p /\ t.boardId \notin BoardIdsOf(boards, p)
             /\ \A i \in 1..Len(notifications') : notifications'[i].projectId # p
             /\ \A r \in projects' : r.id # p
      ]_vars

\* C5 witness: project 1 (with boards) and project 2 (without) were both purged
C5_Witness ==
    /\ last = Call("hardDeleteProject", "ok", "none")
    /\ projects = {} /\ nextProjectId = 3
    /\ boards = {} /\ columns = {} /\ tasks = {} /\ members = {}

\* C8 as stated: whenever a membership row for (p, u) exists, active or not,
\* addProjectMember(p, u, role, actor) fails with Conflict, inserts no row and
\* emits no notification, for every actor.
C8_ConflictForEveryActor ==
    [][(last'.op = "addProjectMember") =>
       \A p \in ProjectIds, m \in UserIds :
          (\E x \in members : x.projectId = p /\ x.userId = m) =>
       \A r \in ProjectRoles, u \in UserIds :
          AddProjectMember(p, m, r, u) =>
             last'.res = "Conflict" /\ members' = members /\ notifications' = notifications
      ]_vars

\* C8 amended: whenever a membership row for (p, u) exists, active or not,
\* addProjectMember(p, u, role, actor) does not succeed: it fails with Conflict
\* when p is active, the actor is its owner or an active ADMIN of it and user u
\* exists (otherwise the earlier check fails with NotFound or Forbidden); a
\* failed call inserts no row, changes no row and emits no notification, and a
\* successful call inserts rows only for a pair that had none.  After add,
\* remove, add the last call fails with Conflict and the row stays inactive.
C8_ConflictOnExistingRow ==
    /\ [](\A p \in ProjectIds, m \in UserIds :
            (\E x \in members : x.projectId = p /\ x.userId = m) =>
            \A u \in UserIds :
               LET res == addProjectMemberOutcome(p, m, u)
               IN  /\ res \in {"Conflict", "NotFound", "Forbidden"}
                   /\ (ownerOrAdmin(p, u) = "ok" /\ FindRows(users, m) # {})
                         => res = "Conflict")
    /\ [][(last'.op = "addProjectMember") =>
           /\ last'.res # "ok" => members' = members /\ notifications' = notifications
           /\ \A x \in members' \ members :
                 ~\E y \in members : y.projectId = x.projectId /\ y.userId = x.userId
          ]_vars

\* C8 witness: user 2, a member of project 1, was removed, and adding user 2
\* again has failed with Conflict, the row still inactive
C8_Witness ==
    /\ last = Call("addProjectMember", "Conflict", "none")
    /\ \E m \in members : m.projectId = 1 /\ m.userId = 2 /\ ~m.isActive
    /\ \E r \in projects : r.id = 1 /\ r.status = "active"

\* C9 as stated: removeProjectMember(p, owner of p, actor) fails with Forbidden
\* for every actor, leaves the membership rows unchanged and emits no notification.
C9_OwnerRemovalAlwaysForbidden ==
    [][(last'.op = "removeProjectMember") =>
       \A r \in projects, u \in UserIds :
          RemoveProjectMember(r.id, r.ownerId, u) =>
             last'.res = "Forbidden" /\ members' = members /\ notifications' = notifications
      ]_vars

\* C9 amended: removeProjectMember(p, owner of p, actor) never succeeds: for every
\* actor it fails with Forbidden when p is active and with NotFound when p is
\* deleted, leaves the membership rows unchanged and emits no notification.
C9_OwnerNeverRemoved ==
    [][(last'.op = "removeProjectMember") =>
       \A r \in projects, u \in UserIds :
          RemoveProjectMember(r.id, r.ownerId, u) =>
             /\ last'.res = IF r.status = "active" THEN "Forbidden" ELSE "NotFound"
             /\ members' = members /\ notifications' = notifications
      ]_vars

\* C9 witness: a removal has just been refused with Forbidden while project 2 is
\* active and its owner, user 3, still holds the active ADMIN row
C9_Witness ==
    /\ last = Call("removeProjectMember", "Forbidden", "none")
    /\ \E r \in projects : r.id = 2 /\ r.status = "active" /\ r.ownerId = 3
          /\ [projectId |-> 2, userId |-> 3, role |-> ADMIN, isActive |-> TRUE] \in members

\* C10: deleteProject(id, user) has the outcome and leaves the persisted state
\* that softDeleteProject(id, user) has and leaves from the same state.
C10_DeleteProjectIsSoftDelete ==
    [][(last'.op = "deleteProject") =>
       \A p \in ProjectIds, u \in UserIds :
          (DeleteProject(p, u) \/ DeleteProjectLegacy(p, u)) =>
             LET w == IF ownerOnly(p, u) = "ok" THEN softDeleteProjectWrites(p) ELSE Unwritten
             IN  /\ last'.res = ownerOnly(p, u)
                 /\ projects' = w.projects /\ members' = w.members
                 /\ boards' = w.boards /\ columns' = w.columns
                 /\ tasks' = w.tasks /\ notifications' = w.notifications
      ]_vars


(***************************************************************************)
(* The permission evaluator on its own: the specification of the           *)
(* permission table.  The state holds one task of project 1; the project   *)
(* row is absent or present (any owner, active or deleted), users 1 and 2  *)
(* have no membership row or one of any role, active or not, user 3 has    *)
(* none, and the task has any creator and any or no assignee.              *)
(***************************************************************************)
PermMemberRows(u) ==
    {{}} \cup {{[projectId |-> 1, userId |-> u, role |-> r, isActive |-> a]} :
                  r \in ProjectRoles, a \in BOOLEAN}

InitPerm ==
    /\ users = SeedUsers
    /\ refreshTokens = SeedTokens
    /\ userRoles = SeedUserRoles
    /\ projects \in {{}} \cup {{[id |-> 1, ownerId |-> o, status |-> st, name |-> 1]} :
                                  o \in UserIds, st \in {"active", "deleted"}}
    /\ \E m1 \in PermMemberRows(1), m2 \in PermMemberRows(2) : members = m1 \cup m2
    /\ boards = {[id |-> 1, projectId |-> 1, isActive |-> TRUE]}
    /\ columns = {[id |-> 1, boardId |-> 1, isActive |-> TRUE]}
    /\ \E c \in UserIds, a \in UserIds \cup {Null} :
          tasks = {[SeedTask(1, 1, 0) EXCEPT !.createdById = c, !.assigneeId = a]}
    /\ notifications = <<>>
    /\ nextProjectId = 2
    /\ nextTaskId = 2
    /\ clock = 0
    /\ calls = <<>>
    /\ last = Call("init", "ok", "none")

\* one call of the evaluator; the call and its return value are recorded
CheckTaskPermission(taskId, userId, action) ==
    /\ FindRows(tasks, taskId) # {}
    /\ last' = [op |-> "checkTaskPermission",
                res |-> checkTaskPermission(TaskRow(taskId), userId, action),
                failAt |-> "none", userId |-> userId, action |-> action]
    /\ UNCHANGED <<calls, users, refreshTokens, userRoles, projects, members, boards, columns, tasks, notifications,
                   nextProjectId, nextTaskId, clock>>

NextPerm == \E u \in UserIds, a \in TaskActions : CheckTaskPermission(1, u, a)

SpecPerm == InitPerm /\ [][NextPerm]_vars

(***************************************************************************)
(* Permission claims.                                                      *)
(***************************************************************************)
\* the reference table: the actions each role grants, a user holding several
\* roles being granted the actions of each
IsOwnerOf(task, u) == \E p \in projects : p.id = task.projectId /\ p.ownerId = u
IsActiveAdminOf(task, u) ==
    \E m \in members : /\ m.projectId = task.projectId /\ m.userId = u
                        /\ m.isActive /\ m.role = ADMIN
IsActiveMemberOf(task, u) ==
    \E m \in members : m.projectId = task.projectId /\ m.userId = u /\ m.isActive

ReferenceTable(task, u) ==
    IF IsOwnerOf(task, u) \/ IsActiveAdminOf(task, u) THEN TaskActions
    ELSE (IF task.createdById = u THEN {"update", "delete"} ELSE {})
            \cup (IF task.assigneeId = u THEN {"update", "comment"} ELSE {})
            \cup (IF IsActiveMemberOf(task, u) THEN {"read", "comment"} ELSE {})

\* C6: checkTaskPermission(task, user, action) returns a boolean, also when
\* the project row or the membership row is absent, and the boolean is the one of
\* the reference table: owner and active ADMIN everything, else the creator
\* update/delete, the assignee update/comment, an active member read/comment,
\* and nothing else.
C6_PermissionTable ==
    last.op = "checkTaskPermission" =>
       /\ last.res \in BOOLEAN
       /\ last.res = (last.action \in ReferenceTable(TaskRow(1), last.userId))
       /\ \A u \in UserIds, a \in TaskActions :
             checkTaskPermission(TaskRow(1), u, a) = (a \in ReferenceTable(TaskRow(1), u))

\* C6 witness: with the project row absent, a creator without any membership row
\* was granted update, and the evaluator returned (no exception)
C6_Witness ==
    /\ projects = {}
    /\ last.op = "checkTaskPermission" /\ last.action = "update" /\ last.res = TRUE
    /\ TaskRow(1).createdById = last.userId
    /\ TaskRow(1).assigneeId # last.userId
    /\ ~\E m \in members : m.userId = last.userId


(***************************************************************************)
(* The tasks of one project: the specification of the permission matrix.   *)
(* Project 1 has owner 1 and the active non-admin member 2; user 3 is no   *)
(* member.  Task 1 (creator 1) and task 2 (creator 2) are in column 1 and  *)
(* have no assignee; column 2 is empty.  Users 2 and 3 update, delete and  *)
(* comment; every user reads and moves; the owner also removes the member  *)
(* and deletes the project.                                                *)
(***************************************************************************)
InitTasks ==
    /\ users = SeedUsers
    /\ refreshTokens = SeedTokens
    /\ userRoles = SeedUserRoles
    /\ projects = {[id |-> 1, ownerId |-> 1, status |-> "active", name |-> 1]}
    /\ members = {[projectId |-> 1, userId |-> 1, role |-> ADMIN, isActive |-> TRUE],
                  [projectId |-> 1, userId |-> 2, role |-> MEMBER, isActive |-> TRUE]}
    /\ boards = {[id |-> 1, projectId |-> 1, isActive |-> TRUE]}
    /\ columns = {[id |-> 1, boardId |-> 1, isActive |-> TRUE],
                  [id |-> 2, boardId |-> 1, isActive |-> TRUE]}
    /\ tasks = {SeedTask(1, 1, 0), [SeedTask(2, 1, 1) EXCEPT !.createdById = 2]}
    /\ notifications = <<>>
    /\ nextProjectId = 2
    /\ nextTaskId = 3
    /\ clock = 0
    /\ calls = <<>>
    /\ last = Call("init", "ok", "none")

CallTaskIds == {1, 2, 3}           \* task 3 does not exist
CallColumnIds == {2, 3}            \* column 3 does not exist
UpdateTaskDtos == {[columnId |-> 2, assigneeId |-> Undefined]}
TaskActors == {2, 3}               \* the member and the outsider

NextTasks ==
    \/ \E t \in CallTaskIds, u \in UserIds : GetTask(t, u)
    \/ \E t \in CallTaskIds, dto \in UpdateTaskDtos, u \in TaskActors : UpdateTask(t, dto, u)
    \/ \E t \in CallTaskIds, u \in TaskActors : DeleteTask(t, u)
    \/ \E t \in CallTaskIds, u \in TaskActors : AddComment(t, u)
    \/ \E t \in CallTaskIds, c \in CallColumnIds, u \in UserIds : MoveTask(t, c, 0, u)
    \/ \E u \in UserIds : SoftDeleteProject(1, u)
    \/ \E u \in UserIds : RemoveProjectMember(1, 2, u)

SpecTasks == InitTasks /\ [][NextTasks]_vars

(***************************************************************************)
(* Permission matrix claims.                                               *)
(***************************************************************************)
\* u is neither the owner nor an active member of the task's project
Outsider(task, u) == ~IsOwnerOf(task, u) /\ ~IsActiveMemberOf(task, u)

\* u is an active non-admin member, and not owner, creator or assignee
PlainMember(task, u) ==
    /\ IsActiveMemberOf(task, u) /\ ~IsActiveAdminOf(task, u) /\ ~IsOwnerOf(task, u)
    /\ task.createdById # u /\ task.assigneeId # u

\* what the matrix says of one step on task t by user u
MatrixStep(t, u) ==
    LET task == TaskRow(t)
    IN  /\ (Outsider(task, u) /\ GetTask(t, u)) => last'.res = "Forbidden"
        /\ PlainMember(task, u) =>
              /\ (GetTask(t, u) \/ AddComment(t, u)) => last'.res = "ok"
              /\ (\/ \E dto \in UpdateTaskDtos : UpdateTask(t, dto, u)
                  \/ DeleteTask(t, u)
                  \/ \E c \in CallColumnIds : MoveTask(t, c, 0, u))
                    => last'.res = "Forbidden" /\ tasks' = tasks

TaskOps == {"getTask", "addComment", "updateTask", "deleteTask", "moveTask"}

\* C7 as stated: an outsider gets Forbidden from getTask; a plain member can
\* getTask and addComment, and updateTask, deleteTask and moveTask by that member
\* fail with Forbidden and change no task -- whatever the state of the project.
C7_MatrixForEveryProject ==
    [][(last'.op \in TaskOps) =>
       \A t \in CallTaskIds : FindRows(tasks, t) # {} =>
       \A u \in UserIds : MatrixStep(t, u)
      ]_vars

\* C7 amended: the same, for a task whose project is active (for a project that
\* was deleted every one of these calls fails with NotFound).
C7_MatrixForActiveProject ==
    [][(last'.op \in TaskOps) =>
       \A t \in CallTaskIds :
          (FindRows(tasks, t) # {} /\ activeProject(TaskRow(t).projectId) # {}) =>
       \A u \in UserIds : MatrixStep(t, u)
      ]_vars

\* C7 witness: member 2 has commented task 1, which user 1 created, in the active
\* project, and is still a plain member of it
C7_Witness ==
    /\ last = Call("addComment", "ok", "none")
    /\ activeProject(1) # {}
    /\ FindRows(tasks, 1) # {}
    /\ PlainMember(TaskRow(1), 2)
    /\ \E i \in 1..Len(TaskRow(1).comments) : TaskRow(1).comments[i].userId = 2

(***************************************************************************)
(* Creating tasks: the specification of the createTask order.  Project 1   *)
(* (owner 1, member 2) has board 1 with the empty column 1 and column 2,   *)
(* which holds task 1 at order 2; board 2 is inactive.                     *)
(***************************************************************************)
InitCreate ==
    /\ users = SeedUsers
    /\ refreshTokens = SeedTokens
    /\ userRoles = SeedUserRoles
    /\ projects = {[id |-> 1, ownerId |-> 1, status |-> "active", name |-> 1]}
    /\ members = {[projectId |-> 1, userId |-> 1, role |-> ADMIN, isActive |-> TRUE],
                  [projectId |-> 1, userId |-> 2, role |-> MEMBER, isActive |-> TRUE]}
    /\ boards = {[id |-> 1, projectId |-> 1, isActive |-> TRUE],
                 [id |-> 2, projectId |-> 1, isActive |-> FALSE]}
    /\ columns = {[id |-> 1, boardId |-> 1, isActive |-> TRUE],
                  [id |-> 2, boardId |-> 1, isActive |-> TRUE]}
    /\ tasks = {SeedTask(1, 2, 2)}
    /\ notifications = <<>>
    /\ nextProjectId = 2
    /\ nextTaskId = 2
    /\ clock = 0
    /\ calls = <<>>
    /\ last = Call("init", "ok", "none")

CreateTaskDtos == [projectId : {1, 2}, boardId : {1, 2}, columnId : {1, 2, 3}]

NextCreate == \E dto \in CreateTaskDtos, u \in UserIds : CreateTask(dto, u)

SpecCreate == InitCreate /\ [][NextCreate]_vars

(***************************************************************************)
(* Claims on the order of created and appended tasks.                      *)
(***************************************************************************)
\* the order an append is to give: one more than the largest, 0 in an empty column
AppendOrder(rows) == IF rows = {} THEN 0 ELSE Max({t.order : t \in rows}) + 1

\* C11: a successful createTask into column c gives the new task the order
\* (maximum order among the tasks already in c) + 1, and 0 when c is empty: an
\* order strictly greater than every order already in the column.
C11_CreateTaskOrder ==
    [][(last'.op = "createTask" /\ last'.res = "ok") =>
       \A dto \in CreateTaskDtos, u \in UserIds : CreateTask(dto, u) =>
          \E n \in tasks' \ tasks :
             /\ n.order = AppendOrder(RowsIn(tasks, dto.columnId))
             /\ \A t \in RowsIn(tasks, dto.columnId) : t.order < n.order
      ]_vars

\* C12: a successful moveTask(t, c) without an explicit order gives t the order
\* (maximum order in c) + 1, 0 when c is empty (the maximum taken with or without
\* t itself when t is already in c), which is strictly greater than the order of
\* every other task of c, and changes no other task.
C12_MoveAppends ==
    [][(last'.op = "moveTask" /\ last'.res = "ok") =>
       \A t \in OrderTaskIds, c \in OrderColumnIds, u \in UserIds :
          MoveTask(t, c, Undefined, u) =>
             LET others == {x \in RowsIn(tasks, c) : x.id # t}
             IN  /\ \E n \in tasks' :
                       /\ n.id = t /\ n.columnId = c
                       /\ n.order \in {AppendOrder(RowsIn(tasks, c)), AppendOrder(others)}
                       /\ \A o \in others : o.order < n.order
                 /\ \A x \in tasks : x.id # t => x \in tasks'
      ]_vars

(***************************************************************************)
(* Claims on reorderTasksInColumn.                                         *)
(***************************************************************************)
\* the lists a reorder is asked with: tasks 1 and 2, and the missing task 4,
\* in any sequence and with repetitions
ReorderLists == SeqsOver({1, 2, 4}, MaxIds)

LastIndex(ids, id) == Max({i \in 1..Len(ids) : ids[i] = id})

\* a reorder step changes nothing when it fails and only orders when it succeeds
ReorderStepFrame ==
    [][(last'.op = "reorderTasksInColumn") =>
          /\ last'.res # "ok" => tasks' = tasks
          /\ \A t \in tasks : \E n \in tasks' : [n EXCEPT !.order = t.order] = t
          /\ Cardinality(tasks') = Cardinality(tasks)
      ]_vars

\* C13 as stated: reorderTasksInColumn(c, ids) sets order = i for each task
\* ids[i] that belongs to column c, changes no other task and is idempotent.
C13_ReorderSetsEveryIndex ==
    /\ [](\A c \in {1, 2}, ids \in ReorderLists :
            LET post == ReorderLoop(tasks, c, ids, 1)
            IN  /\ \A i \in 1..Len(ids) : \A t \in tasks :
                      (t.id = ids[i] /\ t.columnId = c) => [t EXCEPT !.order = i - 1] \in post
                /\ \A t \in tasks : (t.columnId # c \/ t.id \notin Range(ids)) => t \in post
                /\ ReorderLoop(post, c, ids, 1) = post)
    /\ ReorderStepFrame

\* C13 amended: reorderTasksInColumn(c, ids) sets, for each task of column c that
\* is listed, order = the last index at which its id occurs in ids (the index,
\* when the id occurs once), changes no task of another column, no unlisted task
\* of c and nothing but orders, ignores ids of other columns and of missing
\* tasks, and applying the same call again changes nothing more.
C13_ReorderSetsLastIndex ==
    /\ [](\A c \in {1, 2}, ids \in ReorderLists :
            LET post == ReorderLoop(tasks, c, ids, 1)
            IN  /\ \A t \in tasks :
                      (IF t.columnId = c /\ t.id \in Range(ids)
                       THEN [t EXCEPT !.order = LastIndex(ids, t.id) - 1] ELSE t) \in post
                /\ Cardinality(post) = Cardinality(tasks)
                /\ ReorderLoop(post, c, ids, 1) = post)
    /\ ReorderStepFrame

\* C13 witness: with task 3 in column 2, a reorder of column 1 has put task 2
\* first and task 1 second and has left task 3 at its order
C13_Witness ==
    /\ last = Call("reorderTasksInColumn", "ok", "none")
    /\ \E a, b, c \in tasks :
          /\ a.id = 1 /\ b.id = 2 /\ c.id = 3
          /\ a.columnId = 1 /\ b.columnId = 1 /\ c.columnId = 2
          /\ b.order = 0 /\ a.order = 1 /\ c.order = 3

(***************************************************************************)
(* reorderTasksInColumn statement by statement: two calls in progress,     *)
(* each in its own transaction.  An UPDATE writes the row in place and     *)
(* locks it until the transaction commits or rolls back; an UPDATE of a    *)
(* row another transaction has locked waits; when both calls wait for each *)
(* other the store aborts one of them (a deadlock), whose catch block      *)
(* rolls its writes back.                                                  *)
(***************************************************************************)
CallIds == {1, 2}
IdleCall == [status |-> "idle"]

\* the locks of a call whose updates each commit on their own (no transaction)
lockedRowsAutoCommit(i) == {}

\* the rows a running call has written since startTransaction, as they were
\* before (its undo log): their locks are held until commit or rollback
lockedRows(i) == IF calls[i].status = "running" THEN {r.id : r \in calls[i].undo} ELSE {}

\* the store's row lock: the row was written by another open transaction
rowLockedByOther(i, id) == \E j \in CallIds \ {i} : id \in lockedRows(j)

\* the row the next update(Task, { id: taskIds[i], columnId }, ...) of call i selects
matchedRow(i) ==
    {t \in tasks : t.id = calls[i].taskIds[calls[i].pc] /\ t.columnId = calls[i].columnId}

atUpdate(i) == calls[i].status = "running" /\ calls[i].pc <= Len(calls[i].taskIds)

waiting(i) == atUpdate(i) /\ \E t \in matchedRow(i) : rowLockedByOther(i, t.id)

\* the checks before the transaction
BeginReorder(i, columnId, taskIds, userId) ==
    LET res == reorderTasksInColumnOutcome(columnId, userId)
    IN  /\ calls[i].status = "idle"
        /\ IF res = "ok"
           THEN /\ calls' = [calls EXCEPT ![i] =
                       [status |-> "running", columnId |-> columnId, taskIds |-> taskIds,
                        pc |-> 1, undo |-> {}]]
                /\ last' = last
           ELSE /\ calls' = [calls EXCEPT ![i] = [status |-> "failed"]]
                /\ last' = Call("reorderTasksInColumn", res, "none")
        /\ UNCHANGED <<users, refreshTokens, userRoles, projects, members, boards, columns, tasks, notifications,
                       nextProjectId, nextTaskId, clock>>

\* one pass of the for loop
ReorderUpdate(i) ==
    /\ atUpdate(i) /\ ~waiting(i)
    /\ tasks' = {IF t \in matchedRow(i) THEN [t EXCEPT !.order = calls[i].pc - 1] ELSE t :
                    t \in tasks}
    /\ calls' = [calls EXCEPT ![i].pc = @ + 1,
                              ![i].undo = @ \cup {t \in matchedRow(i) : t.id \notin lockedRows(i)}]
    /\ UNCHANGED <<users, refreshTokens, userRoles, projects, members, boards, columns, notifications,
                   nextProjectId, nextTaskId, clock, last>>

ReorderCommit(i) ==
    /\ calls[i].status = "running" /\ calls[i].pc > Len(calls[i].taskIds)
    /\ calls' = [calls EXCEPT ![i].status = "committed"]
    /\ last' = Call("reorderTasksInColumn", "ok", "none")
    /\ UNCHANGED <<users, refreshTokens, userRoles, projects, members, boards, columns, tasks, notifications,
                   nextProjectId, nextTaskId, clock>>

\* the store ends a deadlock by failing the waiting update of call i: rollback
ReorderDeadlock(i) ==
    /\ waiting(i) /\ \E j \in CallIds \ {i} : waiting(j)
    /\ tasks' = {IF \E r \in calls[i].undo : r.id = t.id
                    THEN CHOOSE r \in calls[i].undo : r.id = t.id ELSE t : t \in tasks}
    /\ calls' = [calls EXCEPT ![i].status = "aborted"]
    /\ last' = Call("reorderTasksInColumn", "Error", "deadlock")
    /\ UNCHANGED <<users, refreshTokens, userRoles, projects, members, boards, columns, notifications,
                   nextProjectId, nextTaskId, clock>>

\* the board of three tasks, and no call begun
InitConcurrent ==
    /\ users = SeedUsers
    /\ refreshTokens = SeedTokens
    /\ userRoles = SeedUserRoles
    /\ projects = {[id |-> 1, ownerId |-> 1, status |-> "active", name |-> 1]}
    /\ members = {[projectId |-> 1, userId |-> 1, role |-> ADMIN, isActive |-> TRUE],
                  [projectId |-> 1, userId |-> 2, role |-> MEMBER, isActive |-> TRUE]}
    /\ boards = {[id |-> 1, projectId |-> 1, isActive |-> TRUE]}
    /\ columns = {[id |-> 1, boardId |-> 1, isActive |-> TRUE],
                  [id |-> 2, boardId |-> 1, isActive |-> TRUE]}
    /\ tasks = {SeedTask(1, 1, 0), SeedTask(2, 1, 1), SeedTask(3, 1, 2)}
    /\ notifications = <<>>
    /\ nextProjectId = 2
    /\ nextTaskId = 4
    /\ clock = 0
    /\ calls = [i \in CallIds |-> IdleCall]
    /\ last = Call("init", "ok", "none")

\* the permutations of the three task ids
Permutations3 ==
    {p \in [1..3 -> {1, 2, 3}] : \A i, j \in 1..3 : i # j => p[i] # p[j]}

NextConcurrent ==
    \/ \E i \in CallIds, ids \in Permutations3, u \in {1, 3} : BeginReorder(i, 1, ids, u)
    \/ \E i \in CallIds : ReorderUpdate(i)
    \/ \E i \in CallIds : ReorderCommit(i)
    \/ \E i \in CallIds : ReorderDeadlock(i)

SpecConcurrent == InitConcurrent /\ [][NextConcurrent]_vars

\* the column is in the order call i submitted
SubmittedOrder(i) ==
    \A k \in 1..Len(calls[i].taskIds) :
       \E t \in tasks : /\ t.id = calls[i].taskIds[k] /\ t.columnId = calls[i].columnId
                         /\ t.order = k - 1

\* C14: when two reorderTasksInColumn calls on the same column with two
\* permutations of the same ids ran concurrently, each in its own transaction
\* with row-level locking, and both have ended, the order of the column is the
\* one submitted by a call that committed: one of the two, never a mixture.
C14_ConcurrentReorderNoMerge ==
    (\A i \in CallIds : calls[i].status \in {"committed", "aborted"}) =>
       \E i \in CallIds : calls[i].status = "committed" /\ SubmittedOrder(i)

\* C14 witness: the two calls submitted different orders, call 1 was aborted by
\* a deadlock and call 2 committed, and the column is in the order of call 2
C14_Witness ==
    /\ calls[1].status = "aborted" /\ calls[2].status = "committed"
    /\ calls[1].taskIds # calls[2].taskIds
    /\ SubmittedOrder(2) /\ ~SubmittedOrder(1)


(***************************************************************************)
(* The user lifecycle: the specification of the claims on softDeleteUser   *)
(* and hardDeleteUser.  User 1 owns project 1; user 2 owns project 2 and   *)
(* project 3, which was soft-deleted earlier; user 3 owns nothing.         *)
(***************************************************************************)
InitUsers ==
    /\ users = SeedUsers
    /\ refreshTokens = SeedTokens \cup {[id |-> 4, userId |-> 2, isRevoked |-> TRUE]}
    /\ userRoles = SeedUserRoles
    /\ projects = {[id |-> 1, ownerId |-> 1, status |-> "active", name |-> 1],
                   [id |-> 2, ownerId |-> 2, status |-> "active", name |-> 1],
                   [id |-> 3, ownerId |-> 2, status |-> "deleted", name |-> 1]}
    /\ members = {[projectId |-> 1, userId |-> 1, role |-> ADMIN, isActive |-> TRUE],
                  [projectId |-> 1, userId |-> 2, role |-> MEMBER, isActive |-> TRUE],
                  [projectId |-> 2, userId |-> 2, role |-> ADMIN, isActive |-> TRUE],
                  [projectId |-> 2, userId |-> 3, role |-> MEMBER, isActive |-> TRUE],
                  [projectId |-> 3, userId |-> 2, role |-> ADMIN, isActive |-> FALSE],
                  [projectId |-> 3, userId |-> 1, role |-> MEMBER, isActive |-> FALSE]}
    /\ boards = {[id |-> 1, projectId |-> 1, isActive |-> TRUE],
                 [id |-> 2, projectId |-> 2, isActive |-> TRUE],
                 [id |-> 3, projectId |-> 3, isActive |-> FALSE]}
    /\ columns = {[id |-> 1, boardId |-> 1, isActive |-> TRUE],
                  [id |-> 2, boardId |-> 2, isActive |-> TRUE],
                  [id |-> 3, boardId |-> 3, isActive |-> FALSE]}
    /\ tasks = {[SeedTask(1, 1, 0) EXCEPT !.assigneeId = 2],
                [SeedTask(2, 2, 0) EXCEPT !.projectId = 2, !.boardId = 2,
                                          !.createdById = 2, !.assigneeId = 3],
                [SeedTask(3, 2, 1) EXCEPT !.projectId = 2, !.boardId = 2,
                                          !.createdById = 3],
                [SeedTask(4, 3, 0) EXCEPT !.projectId = 3, !.boardId = 3,
                                          !.deletedAt = TRUE]}
    /\ notifications = <<Notification("task-assigned", 2, 1),
                         Notification("member-added", 1, 2)>>
    /\ nextProjectId = 4
    /\ nextTaskId = 5
    /\ clock = 0
    /\ calls = <<>>
    /\ last = Call("init", "ok", "none")

NextUsers ==
    \/ \E u \in UserIds, a \in UserIds, f \in UserFailAts : SoftDeleteUser(u, a, f)
    \/ \E u \in UserIds, a \in UserIds, f \in UserFailAts : HardDeleteUser(u, a, f)
    \/ \E p \in ProjectIds, u \in UserIds : SoftDeleteProject(p, u)
    \/ \E p \in ProjectIds, m \in UserIds, u \in UserIds : RemoveProjectMember(p, m, u)

SpecUsers == InitUsers /\ [][NextUsers]_vars

(***************************************************************************)
(* User lifecycle claims.                                                  *)
(***************************************************************************)
\* C15: after a successful softDeleteUser(u, actor): u is inactive with
\* deletedAt set; every project owned by u is deleted; every membership of u
\* is inactive; every task created by or assigned to u has deletedAt set;
\* every notification of u that was unread is archived; every refresh token
\* of u is revoked; and every project not owned by u keeps its status.
C15_SoftDeleteUserCascade ==
    [][(last'.op = "softDeleteUser" /\ last'.res = "ok") =>
       \A u \in UserIds, a \in UserIds :
          SoftDeleteUser(u, a, "none") =>
             /\ \E r \in users' : r.id = u /\ ~r.isActive /\ r.deletedAt
             /\ \A p \in projects' : p.ownerId = u => p.status = "deleted"
             /\ \A m \in members' : m.userId = u => ~m.isActive
             /\ \A t \in tasks' : (t.createdById = u \/ t.assigneeId = u) => t.deletedAt
             /\ Len(notifications') = Len(notifications)
             /\ \A i \in 1..Len(notifications) :
                   notifications[i].userId = u /\ notifications[i].status = "unread"
                      => notifications'[i].status = "archived"
             /\ \A k \in refreshTokens' : k.userId = u => k.isRevoked
             /\ \A p \in projects : p.ownerId # u => p \in projects'
             /\ {p.id : p \in projects'} = {p.id : p \in projects}
      ]_vars

\* C15 witness: user 2 was soft-deleted while owning the active project 2,
\* being an active member of project 1 (which stays active), with task 1
\* assigned, task 2 created, an unread notification and a live token
C15_Witness ==
    /\ last = Call("softDeleteUser", "ok", "none")
    /\ \E r \in users : r.id = 2 /\ r.deletedAt
    /\ \A r \in users : r.id # 2 => ~r.deletedAt
    /\ \E p \in projects : p.id = 2 /\ p.status = "deleted"
    /\ \E p \in projects : p.id = 1 /\ p.status = "active"
    /\ \E m \in members : m.projectId = 1 /\ m.userId = 2 /\ ~m.isActive
    /\ \E t \in tasks : t.id = 1 /\ t.deletedAt
    /\ \E t \in tasks : t.id = 2 /\ t.deletedAt
    /\ \E t \in tasks : t.id = 3 /\ ~t.deletedAt
    /\ notifications[1].status = "archived"
    /\ \E k \in refreshTokens : k.id = 2 /\ k.isRevoked

\* the rows of the tables w that lie under project p, whose boards were boardIds
RowsUnder(w, p, boardIds) ==
    [projects |-> {r \in w.projects : r.id = p},
     members |-> {m \in w.members : m.projectId = p},
     boards |-> {b \in w.boards : b.projectId = p},
     columns |-> {c \in w.columns : c.boardId \in boardIds},
     tasks |-> {t \in w.tasks : t.projectId = p \/ t.boardId \in boardIds},
     notifications |-> {n \in Range(w.notifications) : n.projectId = p}]

NoRows ==
    [projects |-> {}, members |-> {}, boards |-> {}, columns |-> {}, tasks |-> {},
     notifications |-> {}]

\* C16: after a successful hardDeleteUser(u, actor), for every project p that u
\* owned, whatever its status, the rows left under p are those the purge of
\* hardDeleteProject(p) leaves, which are none; and no membership, created
\* task, assigned task, notification, refresh token or user_roles row of u
\* remains, nor the user row.
C16_HardDeleteUserSubsumesProjectPurge ==
    [][(last'.op = "hardDeleteUser" /\ last'.res = "ok") =>
       \A u \in UserIds, a \in UserIds :
          HardDeleteUser(u, a, "none") =>
             /\ \A p \in projects : p.ownerId = u =>
                   LET boardIds == BoardIdsOf(boards, p.id)
                       after == [projects |-> projects', members |-> members',
                                 boards |-> boards', columns |-> columns',
                                 tasks |-> tasks', notifications |-> notifications']
                   IN  /\ RowsUnder(after, p.id, boardIds)
                             = RowsUnder(hardDeleteProjectWrites(p.id), p.id, boardIds)
                       /\ RowsUnder(after, p.id, boardIds) = NoRows
             /\ \A m \in members' : m.userId # u
             /\ \A t \in tasks' : t.createdById # u /\ t.assigneeId # u
             /\ \A i \in 1..Len(notifications') : notifications'[i].userId # u
             /\ \A k \in refreshTokens' : k.userId # u
             /\ \A r \in userRoles' : r.userId # u
             /\ \A r \in users' : r.id # u
      ]_vars

\* C16 witness: user 2 was hard-deleted; its active project 2 and its deleted
\* project 3 are gone with their boards, columns, tasks and memberships, and
\* project 1 of user 1 is left
C16_Witness ==
    /\ last = Call("hardDeleteUser", "ok", "none")
    /\ {r.id : r \in users} = {1, 3}
    /\ {p.id : p \in projects} = {1}
    /\ {b.id : b \in boards} = {1}
    /\ {c.id : c \in columns} = {1}
    /\ {<<m.projectId, m.userId>> : m \in members} = {<<1, 1>>}
    /\ tasks = {}
    /\ {k.userId : k \in refreshTokens} = {1, 3}
    /\ {r.userId : r \in userRoles} = {1, 3}

UserOps == {"softDeleteUser", "hardDeleteUser"}

AllRowsUnchanged ==
    UNCHANGED <<users, refreshTokens, userRoles, projects, members, boards, columns,
                tasks, notifications>>

\* C17 as stated: softDeleteUser(u, actor) and hardDeleteUser(u, actor) fail
\* with Forbidden whenever actor = u and with NotFound whenever u does not
\* exist, and change no row in either case.
C17_SelfForbiddenMissingNotFound ==
    [][(last'.op \in UserOps) =>
       \A u \in UserIds, a \in UserIds, f \in UserFailAts :
          (SoftDeleteUser(u, a, f) \/ HardDeleteUser(u, a, f)) =>
             /\ (u = a) => (last'.res = "Forbidden" /\ AllRowsUnchanged)
             /\ (\A r \in users : r.id # u) => (last'.res = "NotFound" /\ AllRowsUnchanged)
      ]_vars

\* C17: softDeleteUser(u, actor) and hardDeleteUser(u, actor) fail with
\* Forbidden whenever actor = u, whether u exists or not, and with NotFound
\* whenever u does not exist and actor is another user; they change no row in
\* either case.
C17_SelfForbiddenElseMissingNotFound ==
    [][(last'.op \in UserOps) =>
       \A u \in UserIds, a \in UserIds, f \in UserFailAts :
          (SoftDeleteUser(u, a, f) \/ HardDeleteUser(u, a, f)) =>
             /\ (u = a) => (last'.res = "Forbidden" /\ AllRowsUnchanged)
             /\ (u # a /\ \A r \in users : r.id # u)
                   => (last'.res = "NotFound" /\ AllRowsUnchanged)
      ]_vars

\* C17 witness: user 2 was hard-deleted before, and deleting it again (by
\* another user) failed with NotFound
C17_Witness ==
    /\ last = Call("hardDeleteUser", "NotFound", "none")
    /\ {r.id : r \in users} = {1, 3}

(***************************************************************************)
(* Project access: the specification of the claims on getProject and on    *)
(* the authorization of the project operations.  Project 1 (owner 1) has   *)
(* the admin 2 and the plain member 3; project 2 (owner 3) has the removed *)
(* member 1 and no row for user 2; project 3 does not exist.               *)
(***************************************************************************)
InitAuth ==
    /\ users = SeedUsers
    /\ refreshTokens = SeedTokens
    /\ userRoles = SeedUserRoles
    /\ projects = {[id |-> 1, ownerId |-> 1, status |-> "active", name |-> 1],
                   [id |-> 2, ownerId |-> 3, status |-> "active", name |-> 1]}
    /\ members = {[projectId |-> 1, userId |-> 1, role |-> ADMIN, isActive |-> TRUE],
                  [projectId |-> 1, userId |-> 2, role |-> ADMIN, isActive |-> TRUE],
                  [projectId |-> 1, userId |-> 3, role |-> MEMBER, isActive |-> TRUE],
                  [projectId |-> 2, userId |-> 3, role |-> ADMIN, isActive |-> TRUE],
                  [projectId |-> 2, userId |-> 1, role |-> ADMIN, isActive |-> FALSE]}
    /\ boards = {[id |-> 1, projectId |-> 1, isActive |-> TRUE]}
    /\ columns = {[id |-> 1, boardId |-> 1, isActive |-> TRUE]}
    /\ tasks = {SeedTask(1, 1, 0)}
    /\ notifications = <<>>
    /\ nextProjectId = 3
    /\ nextTaskId = 2
    /\ clock = 0
    /\ calls = <<>>
    /\ last = Call("init", "ok", "none")

AuthProjectIds == {1, 2, 3}
UpdateProjectDtos == {[name |-> 2]}
AddedUserIds == {2}          \* user 2 has no row in project 2
RemovedUserIds == {2}

NextAuth ==
    \/ \E p \in AuthProjectIds, u \in UserIds : GetProject(p, u)
    \/ \E p \in AuthProjectIds, d \in UpdateProjectDtos, u \in UserIds : UpdateProject(p, d, u)
    \/ \E p \in AuthProjectIds, m \in AddedUserIds, r \in ProjectRoles, u \in UserIds :
          AddProjectMember(p, m, r, u)
    \/ \E p \in AuthProjectIds, m \in RemovedUserIds, u \in UserIds :
          RemoveProjectMember(p, m, u)
    \/ \E p \in AuthProjectIds, u \in UserIds : SoftDeleteProject(p, u)
    \/ \E p \in AuthProjectIds, u \in UserIds : HardDeleteProject(p, u)
    \/ DeleteProject(1, 1)      \* the owner sets the status, the memberships stay

SpecAuth == InitAuth /\ [][NextAuth]_vars

(***************************************************************************)
(* Project access claims.                                                  *)
(***************************************************************************)
IsOwner(p, u) == \E r \in projects : r.id = p /\ r.ownerId = u
IsActiveMember(p, u) == \E m \in members : m.projectId = p /\ m.userId = u /\ m.isActive
IsActiveAdmin(p, u) ==
    \E m \in members : m.projectId = p /\ m.userId = u /\ m.isActive /\ m.role = ADMIN
ExistsActive(p) == \E r \in projects : r.id = p /\ r.status = "active"

\* C18: getProject(id, user) fails with NotFound iff no project with that id
\* and status active exists, fails with Forbidden iff such a project exists and
\* the user is neither its owner nor an active member of it, and otherwise
\* returns the project; it changes no row.
C18_GetProjectExistenceBeforeAccess ==
    [][(last'.op = "getProject") =>
       \A p \in AuthProjectIds, u \in UserIds :
          GetProject(p, u) =>
             /\ (last'.res = "NotFound") <=> ~ExistsActive(p)
             /\ (last'.res = "Forbidden") <=>
                   (ExistsActive(p) /\ ~IsOwner(p, u) /\ ~IsActiveMember(p, u))
             /\ (last'.res \notin {"NotFound", "Forbidden"}) =>
                   /\ last'.res = "ok"
                   /\ last'.returned = {r \in projects : r.id = p}
      ]_vars

\* C18 witness: a user without an active membership asked for an existing
\* active project (both projects are active and neither is owned by user 2,
\* whose only membership was removed) and got Forbidden
C18_Witness ==
    /\ last.op = "getProject" /\ last.res = "Forbidden"
    /\ \A p \in {1, 2} : ExistsActive(p)
    /\ \E m \in members : m.projectId = 1 /\ m.userId = 2 /\ ~m.isActive

ProjectRowsUnchanged ==
    UNCHANGED <<users, refreshTokens, userRoles, projects, members, boards, columns,
                tasks, notifications>>

DeleteOps == {"softDeleteProject", "hardDeleteProject"}
ManageOps == {"updateProject", "addProjectMember", "removeProjectMember"}

\* the step is softDeleteProject(p, u) or hardDeleteProject(p, u)
DeleteStep(p, u) == SoftDeleteProject(p, u) \/ HardDeleteProject(p, u)

\* the step is updateProject, addProjectMember or removeProjectMember on p by u
ManageStep(p, u) ==
    \/ \E d \in UpdateProjectDtos : UpdateProject(p, d, u)
    \/ \E m \in AddedUserIds, r \in ProjectRoles : AddProjectMember(p, m, r, u)
    \/ \E m \in RemovedUserIds : RemoveProjectMember(p, m, u)

\* C19 as stated: softDeleteProject and hardDeleteProject change rows only when
\* the actor is the owner of the project, and an active ADMIN member who is not
\* the owner gets Forbidden; updateProject, addProjectMember and
\* removeProjectMember change rows only when the actor is the owner or an
\* active ADMIN member, and an active member who is neither gets Forbidden; a
\* Forbidden call changes no row.
C19_ProjectAuthorization ==
    [][(last'.op \in DeleteOps \cup ManageOps) =>
       /\ (last'.res = "Forbidden") => ProjectRowsUnchanged
       /\ \A p \in AuthProjectIds, u \in UserIds :
             /\ (last'.op \in DeleteOps /\ ~IsOwner(p, u)
                   /\ (~ProjectRowsUnchanged
                         \/ (IsActiveAdmin(p, u) /\ last'.res # "Forbidden")))
                   => ~DeleteStep(p, u)
             /\ (last'.op \in ManageOps /\ ~IsOwner(p, u)
                   /\ (\/ ~ProjectRowsUnchanged /\ ~IsActiveAdmin(p, u)
                       \/ /\ IsActiveMember(p, u) /\ ~IsActiveAdmin(p, u)
                          /\ last'.res # "Forbidden"))
                   => ~ManageStep(p, u)
      ]_vars

\* C19: the same for the members of an active project: softDeleteProject and
\* hardDeleteProject change rows only when the actor is the owner, and an
\* active ADMIN member of an active project who is not its owner gets
\* Forbidden; updateProject, addProjectMember and removeProjectMember change
\* rows only when the actor is the owner or an active ADMIN member, and an
\* active member of an active project who is neither gets Forbidden; a
\* Forbidden call changes no row.  (On a deleted project they get NotFound.)
C19_ActiveProjectAuthorization ==
    [][(last'.op \in DeleteOps \cup ManageOps) =>
       /\ (last'.res = "Forbidden") => ProjectRowsUnchanged
       /\ \A p \in AuthProjectIds, u \in UserIds :
             /\ (last'.op \in DeleteOps /\ ~IsOwner(p, u)
                   /\ (~ProjectRowsUnchanged
                         \/ (ExistsActive(p) /\ IsActiveAdmin(p, u)
                               /\ last'.res # "Forbidden")))
                   => ~DeleteStep(p, u)
             /\ (last'.op \in ManageOps /\ ~IsOwner(p, u)
                   /\ (\/ ~ProjectRowsUnchanged /\ ~IsActiveAdmin(p, u)
                       \/ /\ ExistsActive(p)
                          /\ IsActiveMember(p, u) /\ ~IsActiveAdmin(p, u)
                          /\ last'.res # "Forbidden"))
                   => ~ManageStep(p, u)
      ]_vars

\* C19 witness: project 1 got a new name while user 1 is its owner, user 2 its
\* admin and user 3 a plain member, and the last call, a delete of a project
\* by someone who is not its owner, was refused
C19_Witness ==
    /\ last = Call("softDeleteProject", "Forbidden", "none")
    /\ \E r \in projects : r.id = 1 /\ r.name = 2 /\ r.status = "active"
    /\ \E r \in projects : r.id = 2 /\ r.name = 1 /\ r.status = "active"
    /\ IsActiveAdmin(1, 2) /\ IsActiveMember(1, 3)
    /\ \E m \in members : m.projectId = 2 /\ m.userId = 2

(***************************************************************************)
(* Two addProjectMember calls, statement by statement.  A call is a record *)
(* of calls: it passes the checks on the caller and on the user, reads the *)
(* membership row of the pair, saves the new row and sends the             *)
(* notification.  The membership entity is not part of the source: the     *)
(* table may have no constraint on (projectId, userId), a unique index on  *)
(* it, or the pair as its primary key, and save() of a second row for a    *)
(* pair then inserts it, is rejected by the store, or overwrites the row.  *)
(* Call 1 adds with role ADMIN and call 2 with role MEMBER, so that two    *)
(* rows of one pair are two elements of members.                           *)
(***************************************************************************)
CallRole(i) == IF i = 1 THEN ADMIN ELSE MEMBER

\* the checks on the caller and on the user to add
AddMemberBegin(i, projectId, memberUserId, currentUserId) ==
    LET allowed == ownerOrAdmin(projectId, currentUserId)
        res == IF allowed # "ok" THEN allowed
               ELSE IF FindRows(users, memberUserId) = {} THEN "NotFound"
               ELSE "ok"
    IN  /\ calls[i].status = "idle"
        /\ IF res = "ok"
           THEN /\ calls' = [calls EXCEPT ![i] =
                       [status |-> "authorized", projectId |-> projectId,
                        userId |-> memberUserId, res |-> "none"]]
                /\ last' = last
           ELSE /\ calls' = [calls EXCEPT ![i] = [status |-> "failed", res |-> res]]
                /\ last' = Call("addProjectMember", res, "none")
        /\ UNCHANGED <<users, refreshTokens, userRoles, projects, members, boards, columns,
                       tasks, notifications, nextProjectId, nextTaskId, clock>>

\* const existingMember = await findOne(...); if (existingMember) throw Conflict
AddMemberRead(i) ==
    /\ calls[i].status = "authorized"
    /\ IF existingMember(calls[i].projectId, calls[i].userId) # {}
       THEN /\ calls' = [calls EXCEPT ![i].status = "failed", ![i].res = "Conflict"]
            /\ last' = Call("addProjectMember", "Conflict", "none")
       ELSE /\ calls' = [calls EXCEPT ![i].status = "checked"]
            /\ last' = last
    /\ UNCHANGED <<users, refreshTokens, userRoles, projects, members, boards, columns,
                   tasks, notifications, nextProjectId, nextTaskId, clock>>

newMember(i) ==
    [projectId |-> calls[i].projectId, userId |-> calls[i].userId,
     role |-> CallRole(i), isActive |-> TRUE]

\* save(projectMember): the row is inserted (no row of the pair, or no constraint)
AddMemberSave(i) ==
    /\ calls[i].status = "checked"
    /\ members' = members \cup {newMember(i)}
    /\ calls' = [calls EXCEPT ![i].status = "saved"]
    /\ UNCHANGED <<users, refreshTokens, userRoles, projects, boards, columns, tasks,
                   notifications, nextProjectId, nextTaskId, clock, last>>

\* save(projectMember) when the pair is the primary key: the row is overwritten
AddMemberSaveOverwrites(i) ==
    /\ calls[i].status = "checked"
    /\ existingMember(calls[i].projectId, calls[i].userId) # {}
    /\ members' = (members \ existingMember(calls[i].projectId, calls[i].userId))
                     \cup {newMember(i)}
    /\ calls' = [calls EXCEPT ![i].status = "saved"]
    /\ UNCHANGED <<users, refreshTokens, userRoles, projects, boards, columns, tasks,
                   notifications, nextProjectId, nextTaskId, clock, last>>

\* save(projectMember) when the pair has a unique index: the store's error
AddMemberSaveRejected(i) ==
    /\ calls[i].status = "checked"
    /\ existingMember(calls[i].projectId, calls[i].userId) # {}
    /\ calls' = [calls EXCEPT ![i].status = "failed", ![i].res = "Error"]
    /\ last' = Call("addProjectMember", "Error", "save")
    /\ UNCHANGED <<users, refreshTokens, userRoles, projects, members, boards, columns,
                   tasks, notifications, nextProjectId, nextTaskId, clock>>

\* the notification to the added member, and the return
AddMemberNotify(i) ==
    /\ calls[i].status = "saved"
    /\ notifications' = Append(notifications,
          Notification("member-added", calls[i].userId, calls[i].projectId))
    /\ calls' = [calls EXCEPT ![i].status = "done", ![i].res = "ok"]
    /\ last' = Call("addProjectMember", "ok", "none")
    /\ UNCHANGED <<users, refreshTokens, userRoles, projects, members, boards, columns,
                   tasks, nextProjectId, nextTaskId, clock>>

\* project 1 of user 1 with the member 2; user 3 has no row; no call begun
InitMembers ==
    /\ users = SeedUsers
    /\ refreshTokens = SeedTokens
    /\ userRoles = SeedUserRoles
    /\ projects = {[id |-> 1, ownerId |-> 1, status |-> "active", name |-> 1]}
    /\ members = {[projectId |-> 1, userId |-> 1, role |-> ADMIN, isActive |-> TRUE],
                  [projectId |-> 1, userId |-> 2, role |-> MEMBER, isActive |-> TRUE]}
    /\ boards = {[id |-> 1, projectId |-> 1, isActive |-> TRUE]}
    /\ columns = {[id |-> 1, boardId |-> 1, isActive |-> TRUE]}
    /\ tasks = {SeedTask(1, 1, 0)}
    /\ notifications = <<>>
    /\ nextProjectId = 2
    /\ nextTaskId = 2
    /\ clock = 0
    /\ calls = [i \in CallIds |-> IdleCall]
    /\ last = Call("init", "ok", "none")

NextMembers ==
    \/ \E i \in CallIds, p \in ProjectIds, m \in UserIds, u \in UserIds :
          AddMemberBegin(i, p, m, u)
    \/ \E i \in CallIds : AddMemberRead(i)
    \/ \E i \in CallIds : AddMemberSave(i)
    \/ \E i \in CallIds : AddMemberSaveOverwrites(i)
    \/ \E i \in CallIds : AddMemberSaveRejected(i)
    \/ \E i \in CallIds : AddMemberNotify(i)

SpecMembers == InitMembers /\ [][NextMembers]_vars

MemberRows(p, u) == {m \in members : m.projectId = p /\ m.userId = u}

\* the call has ended, with an exception or with its return
Ended(i) == calls[i].status \in {"failed", "done"}

\* C20: in every reachable state there is at most one membership row per
\* (project, user) pair, also while two addProjectMember calls are interleaved
\* read by read and write by write; and of two such calls for the same pair
\* that have got past the checks on the caller, at most one ends with success
\* and then the other ends with Conflict.
C20_OneMembershipRowPerPair ==
    /\ \A p \in ProjectIds, u \in UserIds : Cardinality(MemberRows(p, u)) <= 1
    /\ (/\ Ended(1) /\ Ended(2)
        /\ calls[1].res \in {"ok", "Conflict", "Error"}
        /\ calls[2].res \in {"ok", "Conflict", "Error"}
        /\ calls[1].projectId = calls[2].projectId /\ calls[1].userId = calls[2].userId
        /\ calls[1].res = "ok" \/ calls[2].res = "ok")
          => \E i \in CallIds, j \in CallIds :
                i # j /\ calls[i].res = "ok" /\ calls[j].res = "Conflict"

(***************************************************************************)
(* The project list: the specification of the claim on listProjects.       *)
(* User 1 owns projects 1 and 3 and was removed from project 2 of user 2;  *)
(* user 3 is a member of project 1.                                        *)
(***************************************************************************)
InitList ==
    /\ users = SeedUsers
    /\ refreshTokens = SeedTokens
    /\ userRoles = SeedUserRoles
    /\ projects = {[id |-> 1, ownerId |-> 1, status |-> "active", name |-> 1],
                   [id |-> 2, ownerId |-> 2, status |-> "active", name |-> 1],
                   [id |-> 3, ownerId |-> 1, status |-> "active", name |-> 1]}
    /\ members = {[projectId |-> 1, userId |-> 1, role |-> ADMIN, isActive |-> TRUE],
                  [projectId |-> 1, userId |-> 3, role |-> MEMBER, isActive |-> TRUE],
                  [projectId |-> 2, userId |-> 2, role |-> ADMIN, isActive |-> TRUE],
                  [projectId |-> 2, userId |-> 1, role |-> MEMBER, isActive |-> FALSE],
                  [projectId |-> 3, userId |-> 1, role |-> ADMIN, isActive |-> TRUE]}
    /\ boards = {}
    /\ columns = {}
    /\ tasks = {}
    /\ notifications = <<>>
    /\ nextProjectId = 4
    /\ nextTaskId = 1
    /\ clock = 0
    /\ calls = <<>>
    /\ last = Call("init", "ok", "none")

ListProjectIds == {1, 2, 3}
Pages == {1, 2}
Limits == {1, 2}

NextList ==
    \/ \E u \in UserIds, page \in Pages, limit \in Limits : ListProjects(u, page, limit)
    \/ \E p \in ListProjectIds, u \in UserIds : SoftDeleteProject(p, u)
    \/ \E p \in ListProjectIds, u \in UserIds : HardDeleteProject(p, u)

SpecList == InitList /\ [][NextList]_vars

\* the projects that listProjects(u, ...) is to return
Listed(u) ==
    {p \in projects :
        /\ p.status # "deleted"
        /\ p.ownerId = u \/ \E m \in members : m.projectId = p.id /\ m.userId = u}

\* C21: listProjects(user, page, limit) returns the page slice, newest first,
\* of exactly the projects that are not deleted and that the user owns or has
\* a membership row in (active or not), each once, and total is the number of
\* all of them, whatever page and limit are.
C21_ListProjects ==
    [][(last'.op = "listProjects") =>
       \A u \in UserIds, page \in Pages, limit \in Limits :
          ListProjects(u, page, limit) =>
             LET all == NewestFirst(Listed(u))
                 offset == (page - 1) * limit
                 slice == last'.returned.projects
             IN  /\ last'.returned.total = Cardinality(Listed(u))
                 /\ Len(slice) <= limit
                 /\ \A i \in 1..Len(slice) :
                       offset + i <= Len(all) /\ slice[i] = all[offset + i]
                 /\ \A i \in 1..Len(all) :
                       (offset < i /\ i <= offset + limit) => i - offset <= Len(slice)
      ]_vars

(***************************************************************************)
(* Assignment: the specification of the claim on updateTask's              *)
(* notifications.  Project 1 of user 1 with the members 2 and 3; task 1 is *)
(* assigned to user 2, task 2 to nobody.                                   *)
(***************************************************************************)
InitAssign ==
    /\ users = SeedUsers
    /\ refreshTokens = SeedTokens
    /\ userRoles = SeedUserRoles
    /\ projects = {[id |-> 1, ownerId |-> 1, status |-> "active", name |-> 1]}
    /\ members = {[projectId |-> 1, userId |-> 1, role |-> ADMIN, isActive |-> TRUE],
                  [projectId |-> 1, userId |-> 2, role |-> MEMBER, isActive |-> TRUE],
                  [projectId |-> 1, userId |-> 3, role |-> MEMBER, isActive |-> TRUE]}
    /\ boards = {[id |-> 1, projectId |-> 1, isActive |-> TRUE]}
    /\ columns = {[id |-> 1, boardId |-> 1, isActive |-> TRUE],
                  [id |-> 2, boardId |-> 1, isActive |-> TRUE]}
    /\ tasks = {[SeedTask(1, 1, 0) EXCEPT !.assigneeId = 2], SeedTask(2, 1, 1)}
    /\ notifications = <<>>
    /\ nextProjectId = 2
    /\ nextTaskId = 3
    /\ clock = 0
    /\ calls = <<>>
    /\ last = Call("init", "ok", "none")

AssignTaskIds == {1, 2}
AssignDtos == [columnId : {Undefined, 2}, assigneeId : {Undefined, Null, 2, 3}]
AssignActors == {1, 2}

NextAssign ==
    \E t \in AssignTaskIds, d \in AssignDtos, u \in AssignActors : UpdateTask(t, d, u)

SpecAssign == InitAssign /\ [][NextAssign]_vars

\* the notifications that a change of the assignee from old to new by actor is
\* to emit, in the order of their emission
AssignmentNotices(old, new, actor) ==
    (IF old # new /\ old # Null /\ old # actor
        THEN <<Notification("task-unassigned", old, Null)>> ELSE <<>>)
    \o (IF old # new /\ new # Null /\ new # actor
           THEN <<Notification("task-assigned", new, Null)>> ELSE <<>>)

\* C22: a successful updateTask emits notifications only if the assignee of the
\* task changes: none when the fields omit assigneeId or give the assignee the
\* task has; when it changes, 'unassigned' to the old assignee if set and not
\* the actor, 'assigned' to the new assignee if set and not the actor, and
\* nothing else.
C22_AssignmentNotifications ==
    [][(last'.op = "updateTask" /\ last'.res = "ok") =>
       \A t \in AssignTaskIds, d \in AssignDtos, u \in AssignActors :
          UpdateTask(t, d, u) =>
             \E before \in tasks, after \in tasks' :
                /\ before.id = t /\ after.id = t
                /\ notifications' = notifications
                      \o AssignmentNotices(before.assigneeId, after.assigneeId, u)
      ]_vars

(***************************************************************************)
(* Comments: the specification of the claim on addComment.  Project 1 of   *)
(* user 1 with the members 2 and 3; task 1 was created by user 2 and is    *)
(* assigned to user 2, task 2 was created by user 1 and is assigned to     *)
(* user 3.                                                                 *)
(***************************************************************************)
InitComment ==
    /\ users = SeedUsers
    /\ refreshTokens = SeedTokens
    /\ userRoles = SeedUserRoles
    /\ projects = {[id |-> 1, ownerId |-> 1, status |-> "active", name |-> 1]}
    /\ members = {[projectId |-> 1, userId |-> 1, role |-> ADMIN, isActive |-> TRUE],
                  [projectId |-> 1, userId |-> 2, role |-> MEMBER, isActive |-> TRUE],
                  [projectId |-> 1, userId |-> 3, role |-> MEMBER, isActive |-> TRUE]}
    /\ boards = {[id |-> 1, projectId |-> 1, isActive |-> TRUE]}
    /\ columns = {[id |-> 1, boardId |-> 1, isActive |-> TRUE]}
    /\ tasks = {[SeedTask(1, 1, 0) EXCEPT !.createdById = 2, !.assigneeId = 2],
                [SeedTask(2, 1, 1) EXCEPT !.assigneeId = 3]}
    /\ notifications = <<>>
    /\ nextProjectId = 2
    /\ nextTaskId = 3
    /\ clock = 0
    /\ calls = <<>>
    /\ last = Call("init", "ok", "none")

CommentTaskIds == {1, 2}
CommentDtos == [columnId : {Undefined}, assigneeId : {Null, 2, 3}]

NextComment ==
    \/ \E t \in CommentTaskIds, u \in UserIds : AddComment(t, u)
    \/ \E t \in CommentTaskIds, d \in CommentDtos : UpdateTask(t, d, 1)

SpecComment == InitComment /\ [][NextComment]_vars

\* the users that a comment of actor on task is to be announced to
CommentAudience(task, actor) == {task.assigneeId, task.createdById} \ {Null, actor}

\* C23: a successful addComment appends exactly one comment of the actor at the
\* end of the comment list of the task, keeps the earlier comments in their
\* order, and emits exactly one 'task commented' notification to each distinct
\* user among assignee and creator other than the actor: one, not two, when
\* assignee and creator are the same user.
C23_AddCommentNotifiesEachOnce ==
    [][(last'.op = "addComment" /\ last'.res = "ok") =>
       \A t \in CommentTaskIds, u \in UserIds :
          AddComment(t, u) =>
             \E before \in tasks, after \in tasks' :
                /\ before.id = t /\ after.id = t
                /\ Len(after.comments) = Len(before.comments) + 1
                /\ SubSeq(after.comments, 1, Len(before.comments)) = before.comments
                /\ after.comments[Len(after.comments)].userId = u
                /\ Len(notifications') =
                      Len(notifications) + Cardinality(CommentAudience(before, u))
                /\ SubSeq(notifications', 1, Len(notifications)) = notifications
                /\ {notifications'[i] : i \in (Len(notifications) + 1)..Len(notifications')}
                      = {Notification("task-commented", v, Null) :
                            v \in CommentAudience(before, u)}
      ]_vars

(***************************************************************************)
(* The failing sink: the specification of the claim on notification        *)
(* failures.  Project 1 of user 1 with the member 2; user 3 has no row;    *)
(* task 1 was created by user 1 and is assigned to user 2.                 *)
(***************************************************************************)
InitSink ==
    /\ users = SeedUsers
    /\ refreshTokens = SeedTokens
    /\ userRoles = SeedUserRoles
    /\ projects = {[id |-> 1, ownerId |-> 1, status |-> "active", name |-> 1]}
    /\ members = {[projectId |-> 1, userId |-> 1, role |-> ADMIN, isActive |-> TRUE],
                  [projectId |-> 1, userId |-> 2, role |-> MEMBER, isActive |-> TRUE]}
    /\ boards = {[id |-> 1, projectId |-> 1, isActive |-> TRUE]}
    /\ columns = {[id |-> 1, boardId |-> 1, isActive |-> TRUE]}
    /\ tasks = {[SeedTask(1, 1, 0) EXCEPT !.assigneeId = 2]}
    /\ notifications = <<>>
    /\ nextProjectId = 2
    /\ nextTaskId = 2
    /\ clock = 0
    /\ calls = <<>>
    /\ last = Call("init", "ok", "none")

SinkDtos == [columnId : {Undefined}, assigneeId : {Null, 2}]
SinkActors == {1}
SinkMembers == {3}

NextSink ==
    \/ \E r \in ProjectRoles : AddProjectMember(1, 3, r, 1)
    \/ \E r \in ProjectRoles : AddProjectMemberSinkFails(1, 3, r, 1)
    \/ \E m \in SinkMembers : RemoveProjectMember(1, m, 1)
    \/ \E m \in SinkMembers : RemoveProjectMemberSinkFails(1, m, 1)
    \/ \E d \in SinkDtos, u \in SinkActors : UpdateTask(1, d, u)
    \/ \E d \in SinkDtos, u \in SinkActors : UpdateTaskSinkFails(1, d, u)
    \/ \E u \in SinkActors : AddComment(1, u)
    \/ \E u \in SinkActors : AddCommentSinkFails(1, u)

SpecSink == InitSink /\ [][NextSink]_vars

\* C24: when the notification sink fails during addProjectMember,
\* removeProjectMember, updateTask or addComment, the operation still ends with
\* its success result, and the row it wrote (the membership row, the fields of
\* the task, the comment) stays written.
C24_SinkFailureIsNotFatal ==
    [][(last'.failAt = "notify") =>
       /\ last'.res = "ok"
       /\ \A r \in ProjectRoles :
             AddProjectMemberSinkFails(1, 3, r, 1) =>
                \E m \in members' : m.projectId = 1 /\ m.userId = 3 /\ m.role = r
       /\ \A m \in SinkMembers :
             RemoveProjectMemberSinkFails(1, m, 1) =>
                \A x \in members' : (x.projectId = 1 /\ x.userId = m) => ~x.isActive
       /\ \A d \in SinkDtos, u \in SinkActors :
             UpdateTaskSinkFails(1, d, u) =>
                \E t \in tasks' : t.id = 1 /\ t.assigneeId = d.assigneeId
       /\ \A u \in SinkActors :
             AddCommentSinkFails(1, u) =>
                \E t \in tasks' : t.id = 1 /\ Len(t.comments) = Len(TaskRow(1).comments) + 1
      ]_vars

(***************************************************************************)
(* Failed calls: the specification of the eager checks.  Project 1 has     *)
(* owner 1 and the active non-admin member 2; user 3 is no member; there   *)
(* is no project 2, no board 2, no column 3 and no task 3.  Task 1 was     *)
(* created by the owner and task 2 by the member, both in column 1.        *)
(***************************************************************************)
InitFrame == InitTasks

FrameActors == {2, 3}              \* the member and the outsider
FrameTaskIds == {2, 3}
FrameColumnIds == {2, 3}
FrameProjectIds == {1, 2}
FrameCreateDtos == [projectId : {1}, boardId : {1, 2}, columnId : {3}]
FrameUpdateDtos == [columnId : FrameColumnIds, assigneeId : {Undefined}]

NextFrame ==
    \/ \E dto \in FrameCreateDtos, u \in FrameActors : CreateTask(dto, u)
    \/ \E t \in FrameTaskIds, u \in FrameActors : GetTask(t, u)
    \/ \E t \in FrameTaskIds, dto \in FrameUpdateDtos, u \in FrameActors : UpdateTask(t, dto, u)
    \/ \E t \in FrameTaskIds, u \in FrameActors : DeleteTask(t, u)
    \/ \E t \in FrameTaskIds, c \in FrameColumnIds, u \in FrameActors : MoveTask(t, c, 0, u)
    \/ \E c \in {1, 3}, u \in {3} : ReorderTasksInColumn(c, <<2, 1>>, u)
    \/ \E t \in FrameTaskIds, u \in {3} : AddComment(t, u)
    \/ \E p \in FrameProjectIds, u \in FrameActors : GetProject(p, u)
    \/ \E p \in FrameProjectIds, d \in UpdateProjectDtos, u \in FrameActors : UpdateProject(p, d, u)
    \/ \E p \in FrameProjectIds, u \in {1, 2} : AddProjectMember(p, 2, MEMBER, u)
    \/ \E p \in FrameProjectIds, m \in {1, 3}, u \in {1, 2} : RemoveProjectMember(p, m, u)
    \/ \E p \in FrameProjectIds, u \in FrameActors : SoftDeleteProject(p, u)
    \/ \E p \in FrameProjectIds, u \in FrameActors : HardDeleteProject(p, u)
    \/ \E u \in {3, 4}, a \in {3} : SoftDeleteUser(u, a, "none")
    \/ \E u \in {3, 4}, a \in {3} : HardDeleteUser(u, a, "none")

SpecFrame == InitFrame /\ [][NextFrame]_vars

CheckFailures == {"NotFound", "Forbidden", "Conflict"}

\* C25: an operation that ends in NotFound, Forbidden or Conflict leaves every
\* table as it was before the call and emits no notification.
C25_FailedCheckChangesNothing ==
    [][(last'.res \in CheckFailures) =>
          /\ AllRowsUnchanged
          /\ UNCHANGED <<nextProjectId, nextTaskId>>]_vars

\* the member's updateTask of the task they created was refused at the last
\* check, the validation of the new column
C25_Witness ==
    /\ last.op = "updateTask"
    /\ last.res = "NotFound"
    /\ \E t \in FindRows(tasks, 2) :
          /\ t.createdById = 2
          /\ checkProjectAccess(t.projectId, 2) = "ok"
    /\ FindRows(tasks, 3) = {}

(***************************************************************************)
(* Failing transactions: the specification of the all-or-nothing claim.    *)
(* The state is that of the user lifecycle: user 2 owns project 2, whose   *)
(* column 2 holds the tasks 2 and 3.  User 1 deletes user 2 and            *)
(* user 3, user 2 deletes project 2, moves a task of column 2 to its head   *)
(* and reorders the column; every write of each transaction can throw.     *)
(***************************************************************************)
InitAtomic == InitUsers

AtomicOps == {"softDeleteProject", "hardDeleteProject", "softDeleteUser",
              "hardDeleteUser", "moveTask", "reorderTasksInColumn"}
AtomicUserIds == {2, 3}
AtomicActors == {1}
AtomicOrders == {0, Undefined}
AtomicLists == {<<3, 2>>, <<2, 3>>}

NextAtomic ==
    \/ \E u \in AtomicUserIds, a \in AtomicActors,
          f \in {"none", "commit"} \cup Range(softDeleteUserOrder) : SoftDeleteUser(u, a, f)
    \/ \E u \in AtomicUserIds, a \in AtomicActors,
          f \in {"none", "commit"} \cup Range(hardDeleteUserOrder) : HardDeleteUser(u, a, f)
    \/ SoftDeleteProject(2, 2)
    \/ \E f \in {"commit"} \cup Range(softDeleteProjectOrder) : SoftDeleteProjectFails(2, 2, f)
    \/ HardDeleteProject(2, 2)
    \/ \E f \in {"commit"} \cup Range(hardDeleteProjectOrder) : HardDeleteProjectFails(2, 2, f)
    \/ \E t \in {2, 3}, o \in AtomicOrders : MoveTask(t, 2, o, 2)
    \/ \E t \in {2, 3}, o \in AtomicOrders, f \in MoveFailAts : MoveTaskFails(t, 2, o, 2, f)
    \/ \E ids \in AtomicLists : ReorderTasksInColumn(2, ids, 2)
    \/ \E ids \in AtomicLists, i \in 1..3 : ReorderTasksInColumnFails(2, ids, 2, i)

SpecAtomic == InitAtomic /\ [][NextAtomic]_vars

\* C26: when a write inside softDeleteProject, hardDeleteProject,
\* softDeleteUser, hardDeleteUser, moveTask or reorderTasksInColumn fails
\* (or the commit does), the state after the operation equals the state before
\* the call: none of its earlier writes is visible.
C26_AllOrNothing ==
    [][(last'.op \in AtomicOps /\ last'.res = "Error") =>
          /\ AllRowsUnchanged
          /\ UNCHANGED <<nextProjectId, nextTaskId>>]_vars

\* the soft delete of project 2 threw at the update of its tasks, after the
\* project, its memberships, its board and its column had been written, and
\* all of these are as they were
C26_Witness ==
    /\ last.op = "softDeleteProject"
    /\ last.res = "Error"
    /\ last.failAt = "tasks"
    /\ activeProject(2) # {}
    /\ activeMember(2, 3) # {}
    /\ activeColumn(2) # {}

(***************************************************************************)
(* Columns of a second board: the specification of the claims on the       *)
(* listing and the reordering of a column.  Project 1 (owner 1, member 2)  *)
(* has the boards 1 and 2 with the columns 1 and 2; project 2 (owner 1,    *)
(* member 3) has no board.  The tasks 1 and 2 are in column 1, the tasks   *)
(* 3 and 4 in column 2; all four belong to project 1.                      *)
(***************************************************************************)
InitColumn ==
    /\ users = SeedUsers
    /\ refreshTokens = SeedTokens
    /\ userRoles = SeedUserRoles
    /\ projects = {[id |-> 1, ownerId |-> 1, status |-> "active", name |-> 1],
                   [id |-> 2, ownerId |-> 1, status |-> "active", name |-> 1]}
    /\ members = {[projectId |-> 1, userId |-> 1, role |-> ADMIN, isActive |-> TRUE],
                  [projectId |-> 1, userId |-> 2, role |-> MEMBER, isActive |-> TRUE],
                  [projectId |-> 2, userId |-> 1, role |-> ADMIN, isActive |-> TRUE],
                  [projectId |-> 2, userId |-> 3, role |-> MEMBER, isActive |-> TRUE]}
    /\ boards = {[id |-> 1, projectId |-> 1, isActive |-> TRUE],
                 [id |-> 2, projectId |-> 1, isActive |-> TRUE]}
    /\ columns = {[id |-> 1, boardId |-> 1, isActive |-> TRUE],
                  [id |-> 2, boardId |-> 2, isActive |-> TRUE]}
    /\ tasks = {SeedTask(1, 1, 0), SeedTask(2, 1, 1),
                [SeedTask(3, 2, 0) EXCEPT !.boardId = 2],
                [SeedTask(4, 2, 1) EXCEPT !.boardId = 2]}
    /\ notifications = <<>>
    /\ nextProjectId = 3
    /\ nextTaskId = 5
    /\ clock = 0
    /\ calls = <<>>
    /\ last = Call("init", "ok", "none")

ColumnIds == {1, 2, 3}             \* column 3 does not exist
ColumnLists == {<<2, 1>>, <<1, 2>>, <<4, 3>>, <<3, 4>>}

NextColumn ==
    \/ \E c \in ColumnIds, u \in UserIds : GetColumnTasks(c, u)
    \/ \E c \in ColumnIds, ids \in ColumnLists, u \in UserIds : ReorderTasksInColumn(c, ids, u)
    \/ \E u \in UserIds : RemoveProjectMember(1, 2, u)
    \/ \E p \in {1, 2} : SoftDeleteProject(p, 1)

SpecColumn == InitColumn /\ [][NextColumn]_vars

\* the project of the board of column c
OwningProject(c) ==
    {p \in projects : \E col \in columns, b \in boards :
        col.id = c /\ b.id = col.boardId /\ p.id = b.projectId}

\* the owning project is active and u is its owner or an active member of it
HasColumnAccess(c, u) ==
    \E p \in OwningProject(c) :
        /\ p.status = "active"
        /\ p.ownerId = u \/ activeMember(p.id, u) # {}

ColumnOps == {"reorderTasksInColumn", "getColumnTasks"}

\* C27: reorderTasksInColumn(c, ids, u) and listColumnTasks(c, u) succeed only
\* if the project of c's board is active and u is its owner or an active
\* member of it, and for such a user and an active column c they do not fail
\* with NotFound or Forbidden.
C27_ColumnAuthorization ==
    [][(last'.op \in ColumnOps) =>
          \A c \in ColumnIds, u \in UserIds :
             (GetColumnTasks(c, u) \/ \E ids \in ColumnLists : ReorderTasksInColumn(c, ids, u)) =>
                /\ last'.res = "ok" => HasColumnAccess(c, u)
                /\ (activeColumn(c) # {} /\ HasColumnAccess(c, u)) =>
                      last'.res \notin {"NotFound", "Forbidden"}]_vars

\* C28: listColumnTasks(c, u), for an active column c and a user with access
\* to its owning project, returns exactly the tasks whose columnId is c,
\* sorted by order ascending.
C28_ListColumnTasks ==
    [][(last'.op = "getColumnTasks") =>
          \A c \in ColumnIds, u \in UserIds :
             (activeColumn(c) # {} /\ HasColumnAccess(c, u) /\ GetColumnTasks(c, u)) =>
                /\ last'.res = "ok"
                /\ Range(last'.returned) = {t \in tasks : t.columnId = c}
                /\ Len(last'.returned) = Cardinality({t \in tasks : t.columnId = c})
                /\ \A i, j \in 1..Len(last'.returned) :
                      i < j => last'.returned[i].order <= last'.returned[j].order]_vars

(***************************************************************************)
(* The task lifecycle: the specification of the claim on deletedAt.  The   *)
(* state is that of the permission matrix: project 1 of owner 1 with the   *)
(* member 2, task 1 created by the owner and task 2 by the member, both in *)
(* column 1.  The owner works on the tasks, deletes the member's account   *)
(* and deletes the project.                                                *)
(***************************************************************************)
InitLifecycle == InitTasks

LifecycleTaskIds == {1, 2}
LifecycleDtos == [columnId : {2}, assigneeId : {Undefined}]
LifecycleLists == {<<2, 1>>}

NextLifecycle ==
    \/ \E t \in LifecycleTaskIds, dto \in LifecycleDtos : UpdateTask(t, dto, 1)
    \/ \E t \in LifecycleTaskIds : DeleteTask(t, 1)
    \/ \E t \in LifecycleTaskIds : MoveTask(t, 2, 0, 1)
    \/ \E ids \in LifecycleLists : ReorderTasksInColumn(1, ids, 1)
    \/ AddComment(2, 1)
    \/ SoftDeleteUser(2, 1, "none")
    \/ SoftDeleteProject(1, 1)

SpecLifecycle == InitLifecycle /\ [][NextLifecycle]_vars

SoftDeleteCascades == {"softDeleteProject", "softDeleteUser"}
TaskWriters == {"updateTask", "moveTask", "reorderTasksInColumn", "addComment"}

\* C29: deletedAt is set only by the soft-delete cascades of projects and
\* users; deleteTask removes the row and leaves every other task unchanged;
\* once deletedAt is set no operation clears it; updateTask, moveTask,
\* reorderTasksInColumn and addComment never modify a soft-deleted task.
C29_TaskLifecycle ==
    [][/\ \A t \in tasks, n \in tasks' :
            (n.id = t.id /\ ~t.deletedAt /\ n.deletedAt) => last'.op \in SoftDeleteCascades
       /\ (last'.op = "deleteTask" /\ last'.res = "ok") =>
            /\ tasks' \subseteq tasks
            /\ Cardinality(tasks \ tasks') = 1
            /\ \A t \in tasks \ tasks' : FindRows(tasks', t.id) = {}
       /\ last'.op = "deleteTask" => \A n \in tasks' : n.deletedAt => n \in tasks
       /\ \A t \in tasks, n \in tasks' : (n.id = t.id /\ t.deletedAt) => n.deletedAt
       /\ last'.op \in TaskWriters => \A t \in tasks : t.deletedAt => t \in tasks']_vars

(***************************************************************************)
(* Two boards of one project: the specification of the validation of       *)
(* createTask.  Project 1 (owner 1, member 2) has the active boards 1 and  *)
(* 2 with the columns 1 and 2; project 2 (owner 3) has board 3 with column *)
(* 3.  There is no task yet.                                               *)
(***************************************************************************)
InitBoards ==
    /\ users = SeedUsers
    /\ refreshTokens = SeedTokens
    /\ userRoles = SeedUserRoles
    /\ projects = {[id |-> 1, ownerId |-> 1, status |-> "active", name |-> 1],
                   [id |-> 2, ownerId |-> 3, status |-> "active", name |-> 1]}
    /\ members = {[projectId |-> 1, userId |-> 1, role |-> ADMIN, isActive |-> TRUE],
                  [projectId |-> 1, userId |-> 2, role |-> MEMBER, isActive |-> TRUE],
                  [projectId |-> 2, userId |-> 3, role |-> ADMIN, isActive |-> TRUE]}
    /\ boards = {[id |-> 1, projectId |-> 1, isActive |-> TRUE],
                 [id |-> 2, projectId |-> 1, isActive |-> TRUE],
                 [id |-> 3, projectId |-> 2, isActive |-> TRUE]}
    /\ columns = {[id |-> 1, boardId |-> 1, isActive |-> TRUE],
                  [id |-> 2, boardId |-> 2, isActive |-> TRUE],
                  [id |-> 3, boardId |-> 3, isActive |-> TRUE]}
    /\ tasks = {}
    /\ notifications = <<>>
    /\ nextProjectId = 3
    /\ nextTaskId = 3
    /\ clock = 0
    /\ calls = <<>>
    /\ last = Call("init", "ok", "none")

BoardsDtos == [projectId : {1, 2}, boardId : {1, 2, 3}, columnId : {1, 2, 3, 4}]

NextBoards == \E dto \in BoardsDtos, u \in UserIds : CreateTask(dto, u)

SpecBoards == InitBoards /\ [][NextBoards]_vars

\* C30: createTask inserts a task only if the actor has access to the
\* project, the board is active and belongs to the project, and the column
\* is active and belongs to that same board; if the column belongs to a
\* different board (even one of the same project) it fails and inserts
\* nothing.
C30_CreateTaskValidation ==
    [][(last'.op = "createTask") =>
          \A dto \in BoardsDtos, u \in UserIds :
             CreateTask(dto, u) =>
                /\ tasks' # tasks =>
                      /\ checkProjectAccess(dto.projectId, u) = "ok"
                      /\ \E b \in boards :
                            b.id = dto.boardId /\ b.projectId = dto.projectId /\ b.isActive
                      /\ \E c \in columns :
                            c.id = dto.columnId /\ c.isActive /\ c.boardId = dto.boardId
                /\ (\E c \in columns : c.id = dto.columnId /\ c.boardId # dto.boardId) =>
                      (last'.res # "ok" /\ tasks' = tasks)]_vars

(***************************************************************************)
(* Columns of two projects: the specification of the claims on the column  *)
(* and the board of a task.  The state is that of the two boards: project  *)
(* 1 (owner 1, member 2) with the boards 1 and 2 and their columns 1 and   *)
(* 2, project 2 (owner 3) with board 3 and column 3.  Every user creates,  *)
(* updates and moves tasks with every column as the target.                *)
(***************************************************************************)
InitCross == InitBoards

CrossTaskIds == {3, 4}
CrossColumnIds == {1, 2, 3}
CrossCreateDtos == {[projectId |-> 1, boardId |-> 1, columnId |-> 1],
                    [projectId |-> 1, boardId |-> 1, columnId |-> 3],
                    [projectId |-> 2, boardId |-> 3, columnId |-> 3],
                    [projectId |-> 2, boardId |-> 3, columnId |-> 1]}
CrossUpdateDtos == [columnId : CrossColumnIds, assigneeId : {Undefined}]

NextCross ==
    \/ \E dto \in CrossCreateDtos, u \in UserIds : CreateTask(dto, u)
    \/ \E t \in CrossTaskIds, dto \in CrossUpdateDtos, u \in UserIds : UpdateTask(t, dto, u)
    \/ \E t \in CrossTaskIds, c \in CrossColumnIds, u \in UserIds :
          MoveTask(t, c, Undefined, u)

SpecCross == InitCross /\ [][NextCross]_vars

\* the column is on a board of the project
ColumnOfProject(columnId, projectId) ==
    \E c \in columns, b \in boards :
        c.id = columnId /\ b.id = c.boardId /\ b.projectId = projectId

ColumnsInProject(table) == \A t \in table : ColumnOfProject(t.columnId, t.projectId)

\* the calls of updateTask and moveTask on task t with column c by user u
ColumnStep(t, c, u) ==
    \/ last'.op = "updateTask"
          /\ UpdateTask(t, [columnId |-> c, assigneeId |-> Undefined], u)
    \/ last'.op = "moveTask" /\ MoveTask(t, c, Undefined, u)

\* user u passes getTaskById and the permission check of the operation
PassesTaskChecks(t, u, op) ==
    /\ checkProjectAccess(TaskRow(t).projectId, u) = "ok"
    /\ checkTaskPermission(TaskRow(t), u, IF op = "updateTask" THEN "update" ELSE "move")

AddCommentLoad(i, taskId, userId) ==
    LET res == addCommentOutcome(taskId, userId)
    IN  /\ calls[i].status = "idle"
        /\ IF res = "ok"
           THEN /\ calls' = [calls EXCEPT ![i] =
                       [status |-> "loaded", task |-> TaskRow(taskId),
                        userId |-> userId, res |-> "none"]]
                /\ last' = last
           ELSE /\ calls' = [calls EXCEPT ![i] = [status |-> "failed", res |-> res]]
                /\ last' = Call("addComment", res, "none")
        /\ UNCHANGED <<users, refreshTokens, userRoles, projects, members, boards, columns,
                       tasks, notifications, nextProjectId, nextTaskId, clock>>

\* comments.push({ id: Date.now(), userId, ... }); await taskRepository.save(task)
AddCommentSave(i) ==
    /\ calls[i].status = "loaded"
    /\ \E now \in {clock, clock + 1} :
          /\ clock' = now
          /\ tasks' = SaveRow(tasks, [calls[i].task EXCEPT !.comments =
                          Append(@, [id |-> now, userId |-> calls[i].userId])])
    /\ calls' = [calls EXCEPT ![i].status = "saved"]
    /\ UNCHANGED <<users, refreshTokens, userRoles, projects, members, boards, columns,
                   notifications, nextProjectId, nextTaskId, last>>

\* the notifications to the assignee and the creator, and the return
AddCommentNotify(i) ==
    /\ calls[i].status = "saved"
    /\ notifications' = Notify(notifications, "task-commented",
                               notifyUsers(calls[i].task, calls[i].userId))
    /\ calls' = [calls EXCEPT ![i].status = "done", ![i].res = "ok"]
    /\ last' = Call("addComment", "ok", "none")
    /\ UNCHANGED <<users, refreshTokens, userRoles, projects, members, boards, columns,
                   tasks, nextProjectId, nextTaskId, clock>>

\* project 1 of user 1 with the member 2 and the tasks 1 and 2 without comments;
\* user 3 is no member; no call begun
InitCommentRace ==
    /\ users = SeedUsers
    /\ refreshTokens = SeedTokens
    /\ userRoles = SeedUserRoles
    /\ projects = {[id |-> 1, ownerId |-> 1, status |-> "active", name |-> 1]}
    /\ members = {[projectId |-> 1, userId |-> 1, role |-> ADMIN, isActive |-> TRUE],
                  [projectId |-> 1, userId |-> 2, role |-> MEMBER, isActive |-> TRUE]}
    /\ boards = {[id |-> 1, projectId |-> 1, isActive |-> TRUE]}
    /\ columns = {[id |-> 1, boardId |-> 1, isActive |-> TRUE]}
    /\ tasks = {SeedTask(1, 1, 0), SeedTask(2, 1, 1)}
    /\ notifications = <<>>
    /\ nextProjectId = 2
    /\ nextTaskId = 3
    /\ clock = 0
    /\ calls = [i \in CallIds |-> IdleCall]
    /\ last = Call("init", "ok", "none")

RaceTaskIds == {1, 2}

NextCommentRace ==
    \/ \E i \in CallIds, t \in RaceTaskIds, u \in UserIds : AddCommentLoad(i, t, u)
    \/ \E i \in CallIds : AddCommentSave(i)
    \/ \E i \in CallIds : AddCommentNotify(i)

SpecCommentRace == InitCommentRace /\ [][NextCommentRace]_vars

\* C32: within one task the comment ids are pairwise distinct after any
\* sequence of addComment calls, also when the clock returns the same value
\* to calls made in rapid succession.
C32_CommentIdsDistinct ==
    \A t \in tasks : \A j, k \in 1..Len(t.comments) :
        j # k => t.comments[j].id # t.comments[k].id

\* the comments that the calls have saved on task t
SavedOn(t) ==
    {i \in CallIds : calls[i].status \in {"saved", "done"} /\ calls[i].task.id = t}

\* C39: two interleaved addComment calls on the same task end with both
\* comments in the task's list: no comment of a successful addComment is lost.
C39_NoCommentLost ==
    \A t \in tasks : Len(t.comments) = Cardinality(SavedOn(t.id))

(***************************************************************************)
(* Two createTask calls, statement by statement.  A call validates the     *)
(* access, reads the maximum order of the column through the repository    *)
(* (outside its transaction), and saves and commits the new row.           *)
(***************************************************************************)
\* startTransaction; await validateTaskAccess(...): on an exception, rollback
CreateTaskValidate(i, dto, userId) ==
    LET res == createTaskOutcome(dto, userId)
    IN  /\ calls[i].status = "idle"
        /\ IF res = "ok"
           THEN /\ calls' = [calls EXCEPT ![i] =
                       [status |-> "validated", dto |-> dto, userId |-> userId,
                        res |-> "none"]]
                /\ last' = last
           ELSE /\ calls' = [calls EXCEPT ![i] = [status |-> "failed", res |-> res]]
                /\ last' = Call("createTask", res, "none")
        /\ UNCHANGED <<users, refreshTokens, userRoles, projects, members, boards, columns,
                       tasks, notifications, nextProjectId, nextTaskId, clock>>

\* const maxOrder = await taskRepository ... MAX(task.order) ...; nextOrder
CreateTaskReadMax(i) ==
    /\ calls[i].status = "validated"
    /\ calls' = [calls EXCEPT ![i] =
            [status |-> "read", dto |-> calls[i].dto, userId |-> calls[i].userId,
             order |-> nextOrder(tasks, calls[i].dto.columnId), res |-> "none"]]
    /\ UNCHANGED <<users, refreshTokens, userRoles, projects, members, boards, columns,
                   tasks, notifications, nextProjectId, nextTaskId, clock, last>>

\* queryRunner.manager.save(task); commitTransaction: the row gets the next id
CreateTaskSave(i) ==
    /\ calls[i].status = "read"
    /\ tasks' = tasks \cup {[createdTask(calls[i].dto, calls[i].userId)
                                 EXCEPT !.order = calls[i].order]}
    /\ nextTaskId' = nextTaskId + 1
    /\ calls' = [calls EXCEPT ![i] =
            [status |-> "done", dto |-> calls[i].dto, userId |-> calls[i].userId,
             order |-> calls[i].order, taskId |-> nextTaskId, res |-> "ok"]]
    /\ last' = Call("createTask", "ok", "none")
    /\ UNCHANGED <<users, refreshTokens, userRoles, projects, members, boards, columns,
                   notifications, nextProjectId, clock>>

\* project 1 of user 1 with the member 2; column 1 holds the tasks 1 and 2 at
\* the orders 0 and 1 and column 2 holds task 3 at order 2; no call begun
InitCreateRace ==
    /\ users = SeedUsers
    /\ refreshTokens = SeedTokens
    /\ userRoles = SeedUserRoles
    /\ projects = {[id |-> 1, ownerId |-> 1, status |-> "active", name |-> 1]}
    /\ members = {[projectId |-> 1, userId |-> 1, role |-> ADMIN, isActive |-> TRUE],
                  [projectId |-> 1, userId |-> 2, role |-> MEMBER, isActive |-> TRUE]}
    /\ boards = {[id |-> 1, projectId |-> 1, isActive |-> TRUE]}
    /\ columns = {[id |-> 1, boardId |-> 1, isActive |-> TRUE],
                  [id |-> 2, boardId |-> 1, isActive |-> TRUE]}
    /\ tasks = {SeedTask(1, 1, 0), SeedTask(2, 1, 1), SeedTask(3, 2, 2)}
    /\ notifications = <<>>
    /\ nextProjectId = 2
    /\ nextTaskId = 4
    /\ clock = 0
    /\ calls = [i \in CallIds |-> IdleCall]
    /\ last = Call("init", "ok", "none")

RaceCreateDtos == [projectId : {1}, boardId : {1}, columnId : {1, 2, 3}]

NextCreateRace ==
    \/ \E i \in CallIds, dto \in RaceCreateDtos, u \in UserIds : CreateTaskValidate(i, dto, u)
    \/ \E i \in CallIds : CreateTaskReadMax(i)
    \/ \E i \in CallIds : CreateTaskSave(i)

SpecCreateRace == InitCreateRace /\ [][NextCreateRace]_vars

\* C38: two createTask calls into the same column, also when both read the
\* column's maximum order before either inserts, end with two tasks that
\* have distinct order values in that column.
C38_ConcurrentCreateDistinctOrders ==
    (/\ \A i \in CallIds : calls[i].status = "done"
     /\ calls[1].dto.columnId = calls[2].dto.columnId) =>
        TaskRow(calls[1].taskId).order # TaskRow(calls[2].taskId).order

\* C33: in every reachable state a project with status deleted has no active
\* membership row, no active board, no active column under its boards and no
\* task with deletedAt unset.
C33_CascadeConsistency ==
    \A p \in projects : p.status = "deleted" =>
        /\ \A m \in members : m.projectId = p.id => ~m.isActive
        /\ \A b \in boards : b.projectId = p.id => ~b.isActive
        /\ \A c \in columns : c.boardId \in BoardIdsOf(boards, p.id) => ~c.isActive
        /\ \A t \in tasks : t.projectId = p.id => t.deletedAt

(***************************************************************************)
(* A deleted project: the specification of the claim on the operations on  *)
(* a project whose status is deleted.  Project 1 (owner 1, member 2) has   *)
(* board 2 with column 1, which holds the tasks 1 and 2; project 2 belongs *)
(* to user 3.  Project 1 is deleted by softDeleteProject or by the soft    *)
(* delete of its owner; the owner and user 3 call every operation on it.   *)
(***************************************************************************)
InitDeleted ==
    /\ users = SeedUsers
    /\ refreshTokens = SeedTokens
    /\ userRoles = SeedUserRoles
    /\ projects = {[id |-> 1, ownerId |-> 1, status |-> "active", name |-> 1],
                   [id |-> 2, ownerId |-> 3, status |-> "active", name |-> 1]}
    /\ members = {[projectId |-> 1, userId |-> 1, role |-> ADMIN, isActive |-> TRUE],
                  [projectId |-> 1, userId |-> 2, role |-> MEMBER, isActive |-> TRUE],
                  [projectId |-> 2, userId |-> 3, role |-> ADMIN, isActive |-> TRUE]}
    /\ boards = {[id |-> 2, projectId |-> 1, isActive |-> TRUE]}
    /\ columns = {[id |-> 1, boardId |-> 2, isActive |-> TRUE]}
    /\ tasks = {[SeedTask(1, 1, 0) EXCEPT !.boardId = 2, !.createdById = 2],
                [SeedTask(2, 1, 1) EXCEPT !.boardId = 2, !.createdById = 2]}
    /\ notifications = <<>>
    /\ nextProjectId = 3
    /\ nextTaskId = 4
    /\ clock = 0
    /\ calls = <<>>
    /\ last = Call("init", "ok", "none")

DeletedActors == {1, 3}
DeletedTaskIds == {1}
DeletedCreateDtos == {[projectId |-> 1, boardId |-> 2, columnId |-> 1]}
DeletedUpdateDtos == {[columnId |-> Undefined, assigneeId |-> Null]}
DeletedLists == {<<2, 1>>}

\* the project operations on project p by user u
ProjectStep(p, u) ==
    \/ GetProject(p, u)
    \/ \E d \in UpdateProjectDtos : UpdateProject(p, d, u)
    \/ AddProjectMember(p, 3, MEMBER, u)
    \/ RemoveProjectMember(p, 2, u)
    \/ GetProjectMembers(p, u)
    \/ SoftDeleteProject(p, u)
    \/ HardDeleteProject(p, u)

\* the task operations on task t by user u
TaskStep(t, u) ==
    \/ GetTask(t, u)
    \/ \E d \in DeletedUpdateDtos : UpdateTask(t, d, u)
    \/ DeleteTask(t, u)
    \/ MoveTask(t, 1, 0, u)
    \/ AddComment(t, u)

NextDeleted ==
    \/ \E u \in DeletedActors : ProjectStep(1, u)
    \/ \E t \in DeletedTaskIds, u \in DeletedActors : TaskStep(t, u)
    \/ \E d \in DeletedCreateDtos, u \in DeletedActors : CreateTask(d, u)
    \/ \E ids \in DeletedLists, u \in DeletedActors : ReorderTasksInColumn(1, ids, u)
    \/ SoftDeleteUser(1, 3, "none")

SpecDeleted == InitDeleted /\ [][NextDeleted]_vars

IsDeleted(p) == \E r \in projects : r.id = p /\ r.status = "deleted"

\* C34: a deleted project never becomes active again, and every project- or
\* task-scoped operation on it by any actor fails with NotFound without
\* changing state.
C34_DeletedProjectIsClosed ==
    [][/\ \A r \in projects, n \in projects' :
             (n.id = r.id /\ r.status = "deleted") => n.status = "deleted"
       /\ (IsDeleted(1) /\ last'.op \notin {"softDeleteUser", "hardDeleteUser"}) =>
             \A u \in DeletedActors :
                (\/ ProjectStep(1, u)
                 \/ \E t \in DeletedTaskIds : FindRows(tasks, t) # {} /\ TaskStep(t, u)
                 \/ \E d \in DeletedCreateDtos : CreateTask(d, u)
                 \/ \E ids \in DeletedLists : ReorderTasksInColumn(1, ids, u)) =>
                   (last'.res = "NotFound" /\ AllRowsUnchanged)]_vars

\* C35: in every reachable state every task's boardId equals the boardId of
\* the column named by its columnId, also after moveTask or updateTask places
\* the task into a column of another board of the same project.
C35_TaskBoardIsColumnBoard ==
    \A t \in tasks, c \in columns : c.id = t.columnId => t.boardId = c.boardId

(***************************************************************************)
(* The owner's membership: the specification of the claims on the          *)
(* membership rows over the life of a project.  Project 1 of user 1 has    *)
(* the member 2; project 2 is yet to be created.                           *)
(***************************************************************************)
InitOwner ==
    /\ users = SeedUsers
    /\ refreshTokens = SeedTokens
    /\ userRoles = SeedUserRoles
    /\ projects = {[id |-> 1, ownerId |-> 1, status |-> "active", name |-> 1]}
    /\ members = {[projectId |-> 1, userId |-> 1, role |-> ADMIN, isActive |-> TRUE],
                  [projectId |-> 1, userId |-> 2, role |-> MEMBER, isActive |-> TRUE]}
    /\ boards = {[id |-> 1, projectId |-> 1, isActive |-> TRUE]}
    /\ columns = {[id |-> 1, boardId |-> 1, isActive |-> TRUE]}
    /\ tasks = {}
    /\ notifications = <<>>
    /\ nextProjectId = 2
    /\ nextTaskId = 1
    /\ clock = 0
    /\ calls = <<>>
    /\ last = Call("init", "ok", "none")

OwnerCreators == {2}
OwnerActors == {1, 2}        \* the owners; user 2 is a member of project 1 as well
OwnerAdded == {3}
OwnerDeleted == {1, 2}       \* user 3 calls softDeleteUser and hardDeleteUser

NextOwner ==
    \/ \E o \in OwnerCreators, f \in FailAts : CreateProject(o, f)
    \/ \E p \in ProjectIds, m \in OwnerAdded, u \in OwnerActors :
          AddProjectMember(p, m, ADMIN, u)
    \/ \E p \in ProjectIds, m \in UserIds, u \in OwnerActors : RemoveProjectMember(p, m, u)
    \/ \E p \in ProjectIds, u \in OwnerActors : SoftDeleteProject(p, u)
    \/ \E p \in ProjectIds, u \in OwnerActors : HardDeleteProject(p, u)
    \/ \E u \in OwnerDeleted, f \in UserFailAts : SoftDeleteUser(u, 3, f)
    \/ \E u \in OwnerDeleted, f \in UserFailAts : HardDeleteUser(u, 3, f)

SpecOwner == InitOwner /\ [][NextOwner]_vars

OwnerRows(p) ==
    {m \in members : m.projectId = p.id /\ m.userId = p.ownerId
                        /\ m.role = ADMIN /\ m.isActive}

\* C36: in every reachable state every project with status active has an
\* active membership row with the role ADMIN for its owner: createProject
\* creates it and no sequence of addProjectMember, removeProjectMember,
\* softDeleteProject, softDeleteUser or hardDeleteUser deactivates or removes
\* it while the project stays active.
C36_OwnerKeepsAdminRow ==
    \A p \in projects : p.status = "active" => OwnerRows(p) # {}

\* a project made by createProject is active with its owner's row after a user
\* who owns another project was soft-deleted and a member's row was deactivated
C36_Witness ==
    /\ last.op = "softDeleteUser" /\ last.res = "ok"
    /\ \E p \in projects : p.id = 2 /\ p.status = "active" /\ OwnerRows(p) # {}
    /\ \E p \in projects : p.id = 1 /\ p.status = "deleted"
    /\ \E m \in members : m.projectId = 2 /\ ~m.isActive

(***************************************************************************)
(* A member is removed while addProjectMember calls for the same pair are  *)
(* under way: the calls run statement by statement, removeProjectMember    *)
(* runs between their statements.  User 3 has no row in project 1.         *)
(***************************************************************************)
InitReadd == InitMembers

ReaddProjectIds == {1}
ReaddUserIds == {3}
ReaddActors == {1}

NextReadd ==
    \/ \E i \in CallIds, p \in ReaddProjectIds, m \in ReaddUserIds, u \in ReaddActors :
          AddMemberBegin(i, p, m, u)
    \/ \E i \in CallIds : AddMemberRead(i)
    \/ \E i \in CallIds : AddMemberSave(i)
    \/ \E i \in CallIds : AddMemberSaveOverwrites(i)
    \/ \E i \in CallIds : AddMemberSaveRejected(i)
    \/ \E i \in CallIds : AddMemberNotify(i)
    \/ \E p \in ReaddProjectIds, m \in ReaddUserIds, u \in UserIds :
          RemoveProjectMember(p, m, u)

SpecReadd == InitReadd /\ [][NextReadd]_vars

\* every row of the pair is inactive, and there is one
Deactivated(p, u) == MemberRows(p, u) # {} /\ \A m \in MemberRows(p, u) : ~m.isActive

\* C37: membership deactivation is permanent: once the membership row of a
\* pair has isActive = false, no step sets it back to true or inserts a second
\* row for the pair, so a removed user who is not the owner never again passes
\* the access check of the project.
C37_DeactivationIsPermanent ==
    [][\A p \in ProjectIds, u \in UserIds :
          Deactivated(p, u) /\ ~IsOwner(p, u)
             => /\ \A m \in MemberRows(p, u)' : ~m.isActive
                /\ Cardinality(MemberRows(p, u)') <= Cardinality(MemberRows(p, u))
                /\ ~projectsCheckProjectAccess(p, u)']_vars
====
